---- MODULE Spec2Model ----
(***************************************************************************)
(* Changelogger: the run() pipeline of src/src/index.ts, the PR collector  *)
(* of src/src/github.ts and the changelog/drift generator of               *)
(* src/src/openai.ts.                                                      *)
(*                                                                         *)
(* Text is a sequence of string segments.  Titles, labels, bodies and file *)
(* paths are spelled one character per segment, so that includes(),        *)
(* endsWith(), toLowerCase() and the extension regexes are computed on the *)
(* characters; fixed template phrases are single segments.  The emoji of   *)
(* the section headings are written as ASCII names between colons.         *)
(***************************************************************************)
EXTENDS Integers, Sequences, FiniteSets, TLC

\* ------------------------------------------------------------------ bounds

\* longest PR sequence handed to the generator by the mock-test harness
MaxPRs == 2
\* longest closed-PR listing returned by pulls.list
MaxListed == 2
\* most lines of git log output
MaxLines == 2

\* ------------------------------------------------------- string primitives

\* String.prototype.toLowerCase on one character
LowerChar(c) ==
    CASE c = "A" -> "a" [] c = "B" -> "b" [] c = "C" -> "c" [] c = "D" -> "d"
      [] c = "E" -> "e" [] c = "F" -> "f" [] c = "G" -> "g" [] c = "H" -> "h"
      [] c = "I" -> "i" [] c = "J" -> "j" [] c = "K" -> "k" [] c = "L" -> "l"
      [] c = "M" -> "m" [] c = "N" -> "n" [] c = "O" -> "o" [] c = "P" -> "p"
      [] c = "Q" -> "q" [] c = "R" -> "r" [] c = "S" -> "s" [] c = "T" -> "t"
      [] c = "U" -> "u" [] c = "V" -> "v" [] c = "W" -> "w" [] c = "X" -> "x"
      [] c = "Y" -> "y" [] c = "Z" -> "z" [] OTHER -> c

\* String.prototype.toLowerCase
toLowerCase(s) == [i \in 1..Len(s) |-> LowerChar(s[i])]

\* String.prototype.includes
includes(s, sub) ==
    \E i \in 0..(Len(s) - Len(sub)) : SubSeq(s, i + 1, i + Len(sub)) = sub

\* String.prototype.endsWith
endsWith(s, suf) ==
    /\ Len(suf) <= Len(s)
    /\ SubSeq(s, Len(s) - Len(suf) + 1, Len(s)) = suf

\* Array.prototype.some
some(arr, P(_)) == \E i \in 1..Len(arr) : P(arr[i])

\* Array.prototype.includes
arrIncludes(arr, x) == \E i \in 1..Len(arr) : arr[i] = x

\* Array.prototype.map
map(arr, F(_)) == [i \in 1..Len(arr) |-> F(arr[i])]

\* concatenation of a sequence of texts
RECURSIVE Flatten(_)
Flatten(ss) == IF ss = <<>> THEN <<>> ELSE Head(ss) \o Flatten(Tail(ss))

\* one decimal digit
Digit(d) ==
    CASE d = 0 -> "0" [] d = 1 -> "1" [] d = 2 -> "2" [] d = 3 -> "3"
      [] d = 4 -> "4" [] d = 5 -> "5" [] d = 6 -> "6" [] d = 7 -> "7"
      [] d = 8 -> "8" [] d = 9 -> "9"

\* `${n}` for a non-negative integer: its decimal digits
RECURSIVE NumStr(_)
NumStr(n) == IF n < 10 THEN <<Digit(n)>> ELSE NumStr(n \div 10) \o <<Digit(n % 10)>>

\* the extensions of /\.(ts|js|tsx|jsx|py|go|rs|java|c|cpp)$/i
CodeExts ==
    { <<".", "t", "s">>, <<".", "j", "s">>, <<".", "t", "s", "x">>,
      <<".", "j", "s", "x">>, <<".", "p", "y">>, <<".", "g", "o">>,
      <<".", "r", "s">>, <<".", "j", "a", "v", "a">>, <<".", "c">>,
      <<".", "c", "p", "p">> }

\* the extensions of /\.(md|txt|rst)$/i
DocExts == { <<".", "m", "d">>, <<".", "t", "x", "t">>, <<".", "r", "s", "t">> }

\* path.match(/\.(...)$/i): case-insensitive extension match
matchesExt(path, exts) == \E e \in exts : endsWith(toLowerCase(path), e)

\* ------------------------------------------------------------- JS values

Undefined == [t |-> "undefined"]
Null == [t |-> "null"]
Bool(b) == [t |-> "bool", b |-> b]
Num(n) == [t |-> "num", n |-> n]
Str(s) == [t |-> "str", s |-> s]
Arr(a) == [t |-> "arr", a |-> a]
\* an object; printable is whether `${o}` yields text or raises TypeError
Obj(printable) == [t |-> "obj", printable |-> printable]

\* ToBoolean
Truthy(v) ==
    CASE v.t = "undefined" -> FALSE
      [] v.t = "null" -> FALSE
      [] v.t = "bool" -> v.b
      [] v.t = "num" -> v.n # 0
      [] v.t = "str" -> v.s # <<>>
      [] OTHER -> TRUE

\* a ?? b: only undefined and null give way to the default
OrElseNullish(a, b) == IF a.t \in {"undefined", "null"} THEN b ELSE a

\* a || b
OrElse(a, b) == IF Truthy(a) THEN a ELSE b

\* v.length > 0 (undefined > 0 is false)
LengthPositive(v) ==
    CASE v.t = "arr" -> Len(v.a) > 0
      [] v.t = "str" -> Len(v.s) > 0
      [] OTHER -> FALSE

\* whether v.forEach and v.join are functions
IsArray(v) == v.t = "arr"

\* ------------------------------------------------- records (types.ts)

\* a FileChange
File(path) == [path |-> path, status |-> "modified", additions |-> 1, deletions |-> 0]

\* a PullRequest; body is Null or Str(text)
PullRequest(number, title, body, labels, files, strategy, author, mergedAt, sha) ==
    [number |-> number, title |-> title, body |-> body, labels |-> labels,
     files |-> files, merge_strategy |-> strategy, author |-> author,
     merged_at |-> mergedAt, merge_commit_sha |-> sha]

\* a ChangelogEntry
ChangelogEntry(type, pr) ==
    [type |-> type, description |-> pr.title, pr_number |-> pr.number,
     author |-> pr.author]

\* pr.body?.toLowerCase().includes(word): undefined (falsy) when body is null
bodyIncludes(pr, word) ==
    /\ pr.body.t = "str"
    /\ includes(toLowerCase(pr.body.s), word)

\* ------------------------------------------------ generator (openai.ts)

\* new Date().toISOString().split('T')[0] at day `clock`
today(clock) == <<"day-">> \o NumStr(clock)

AttributionFooter ==
    "*Generated by [Changelogger](https://github.com/rohansaibuddhi/changelogger) :robot:*"

\* a template that ends after the body
formatChangelogNoFooter(content, clock) ==
    <<"# Changelog", "\n", "\n", "## [Unreleased] - ">> \o today(clock)
        \o <<"\n", "\n">> \o content

formatChangelog(content, clock) ==
    <<"# Changelog", "\n", "\n", "## [Unreleased] - ">> \o today(clock)
        \o <<"\n", "\n">> \o content
        \o <<"\n", "\n", "---", "\n", AttributionFooter, "\n">>

\* the document returned for an empty PR list
NoChangesDocument ==
    <<"# Changelog", "\n", "\n", "No changes found for this release.">>

\* features filter of generateFallbackChangelog
isFeaturePR(pr) ==
    some(pr.labels, LAMBDA l :
        \/ includes(toLowerCase(l), <<"f", "e", "a", "t", "u", "r", "e">>)
        \/ includes(toLowerCase(l),
                    <<"e", "n", "h", "a", "n", "c", "e", "m", "e", "n", "t">>))

\* a fixes filter that looks for 'fix' alone
isFixPRFixOnly(pr) ==
    some(pr.labels, LAMBDA l : includes(toLowerCase(l), <<"f", "i", "x">>))

\* fixes filter of generateFallbackChangelog
isFixPR(pr) ==
    some(pr.labels, LAMBDA l :
        \/ includes(toLowerCase(l), <<"b", "u", "g">>)
        \/ includes(toLowerCase(l), <<"f", "i", "x">>))

\* docs filter of generateFallbackChangelog
isDocsPR(pr) ==
    \/ some(pr.labels, LAMBDA l : includes(toLowerCase(l), <<"d", "o", "c">>))
    \/ some(pr.files, LAMBDA f : endsWith(f.path, <<".", "m", "d">>))

features(prs) == SelectSeq(prs, isFeaturePR)

fixes(prs) == SelectSeq(prs, isFixPR)

docs(prs) == SelectSeq(prs, isDocsPR)

others(prs) ==
    SelectSeq(prs, LAMBDA pr :
        /\ ~arrIncludes(features(prs), pr)
        /\ ~arrIncludes(fixes(prs), pr)
        /\ ~arrIncludes(docs(prs), pr))

\* `- ${pr.title} (#${pr.number})\n`
bullet(pr) == <<"- ">> \o pr.title \o <<" (#">> \o NumStr(pr.number) \o <<")", "\n">>

\* one section of the fallback changelog body
section(heading, list) ==
    IF Len(list) > 0
    THEN <<heading, "\n", "\n">> \o Flatten(map(list, bullet)) \o <<"\n">>
    ELSE <<>>

fallbackEntries(prs) ==
    map(features(prs), LAMBDA pr : ChangelogEntry("feature", pr))
        \o map(fixes(prs), LAMBDA pr : ChangelogEntry("fix", pr))
        \o map(docs(prs), LAMBDA pr : ChangelogEntry("docs", pr))
        \o map(others(prs), LAMBDA pr : ChangelogEntry("internal", pr))

generateFallbackChangelog(prs, clock) ==
    [changelog |->
        formatChangelog(section("## :rocket: Features", features(prs))
                            \o section("## :bug: Bug Fixes", fixes(prs))
                            \o section("## :books: Documentation", docs(prs))
                            \o section("## :wrench: Other Changes", others(prs)),
                        clock),
     entries |-> fallbackEntries(prs)]

\* codeChangePRs of performHeuristicDriftDetection
codeChangePRs(prs) ==
    SelectSeq(prs, LAMBDA pr :
        some(pr.files, LAMBDA f : matchesExt(f.path, CodeExts)))

\* a documentation test that knows Markdown files only
hasDocChangesMdOnly(prs) ==
    some(prs, LAMBDA pr :
        some(pr.files, LAMBDA f : matchesExt(f.path, {<<".", "m", "d">>})))

\* hasDocChanges of performHeuristicDriftDetection
hasDocChanges(prs) ==
    some(prs, LAMBDA pr : some(pr.files, LAMBDA f : matchesExt(f.path, DocExts)))

\* an API filter that does not look for router paths
apiChangePRsNoRouter(prs) ==
    SelectSeq(prs, LAMBDA pr :
        \/ includes(toLowerCase(pr.title), <<"a", "p", "i">>)
        \/ bodyIncludes(pr, <<"e", "n", "d", "p", "o", "i", "n", "t">>)
        \/ some(pr.files, LAMBDA f : includes(f.path, <<"a", "p", "i">>)))

\* apiChangePRs of performHeuristicDriftDetection
apiChangePRs(prs) ==
    SelectSeq(prs, LAMBDA pr :
        \/ includes(toLowerCase(pr.title), <<"a", "p", "i">>)
        \/ bodyIncludes(pr, <<"e", "n", "d", "p", "o", "i", "n", "t">>)
        \/ some(pr.files, LAMBDA f :
              \/ includes(f.path, <<"a", "p", "i">>)
              \/ includes(f.path, <<"r", "o", "u", "t", "e", "r">>)))

\* a breaking filter that does not look at the labels
breakingPRsNoLabels(prs) ==
    SelectSeq(prs, LAMBDA pr :
        \/ includes(toLowerCase(pr.title), <<"b", "r", "e", "a", "k", "i", "n", "g">>)
        \/ bodyIncludes(pr, <<"b", "r", "e", "a", "k", "i", "n", "g", " ",
                              "c", "h", "a", "n", "g", "e">>))

\* breakingPRs of performHeuristicDriftDetection
breakingPRs(prs) ==
    SelectSeq(prs, LAMBDA pr :
        \/ includes(toLowerCase(pr.title), <<"b", "r", "e", "a", "k", "i", "n", "g">>)
        \/ bodyIncludes(pr, <<"b", "r", "e", "a", "k", "i", "n", "g", " ",
                              "c", "h", "a", "n", "g", "e">>)
        \/ some(pr.labels, LAMBDA l :
              includes(toLowerCase(l), <<"b", "r", "e", "a", "k", "i", "n", "g">>)))

\* featurePRs of performHeuristicDriftDetection
featurePRs(prs) ==
    SelectSeq(prs, LAMBDA pr :
        \/ some(pr.labels, LAMBDA l :
              includes(toLowerCase(l), <<"f", "e", "a", "t", "u", "r", "e">>))
        \/ includes(toLowerCase(pr.title), <<"a", "d", "d">>)
        \/ includes(toLowerCase(pr.title),
                    <<"i", "m", "p", "l", "e", "m", "e", "n", "t">>))

\* hasExamples of performHeuristicDriftDetection
hasExamples(prs) ==
    some(prs, LAMBDA pr :
        some(pr.files, LAMBDA f :
            \/ includes(f.path, <<"e", "x", "a", "m", "p", "l", "e">>)
            \/ includes(f.path, <<"d", "e", "m", "o">>)))

CodeWarning(n) ==
    NumStr(n) \o <<" PRs contain code changes but no documentation updates found">>

CodeSuggestion ==
    <<"Consider updating README.md or documentation to reflect code changes">>

ApiWarning(n) == NumStr(n) \o <<" PRs modify APIs - documentation may need updates">>

ApiSuggestion == <<"Update API documentation and examples to reflect changes">>

BreakingWarning(n) == NumStr(n) \o <<" PRs contain breaking changes">>

BreakingSuggestion ==
    <<"Add migration guide and update version compatibility documentation">>

ExamplesSuggestion(n) ==
    NumStr(n) \o <<" new features added - consider adding usage examples">>

\* an analyzer whose examples rule raises a warning next to its suggestion
performHeuristicDriftDetectionExamplesWarn(prs) ==
    LET code == Len(codeChangePRs(prs)) > 0 /\ ~hasDocChanges(prs)
        api == Len(apiChangePRs(prs)) > 0
        breaking == Len(breakingPRs(prs)) > 0
        examples == Len(featurePRs(prs)) > 0 /\ ~hasExamples(prs)
    IN  [warnings |->
            (IF code THEN <<CodeWarning(Len(codeChangePRs(prs)))>> ELSE <<>>)
                \o (IF api THEN <<ApiWarning(Len(apiChangePRs(prs)))>> ELSE <<>>)
                \o (IF breaking THEN <<BreakingWarning(Len(breakingPRs(prs)))>>
                    ELSE <<>>)
                \o (IF examples THEN <<ExamplesSuggestion(Len(featurePRs(prs)))>>
                    ELSE <<>>),
         suggestions |->
            (IF code THEN <<CodeSuggestion>> ELSE <<>>)
                \o (IF api THEN <<ApiSuggestion>> ELSE <<>>)
                \o (IF breaking THEN <<BreakingSuggestion>> ELSE <<>>)
                \o (IF examples THEN <<ExamplesSuggestion(Len(featurePRs(prs)))>>
                    ELSE <<>>),
         hasBreakingChanges |-> breaking]

\* an analyzer that evaluates the breaking rule before the API rule
performHeuristicDriftDetectionBreakingFirst(prs) ==
    LET code == Len(codeChangePRs(prs)) > 0 /\ ~hasDocChanges(prs)
        api == Len(apiChangePRs(prs)) > 0
        breaking == Len(breakingPRs(prs)) > 0
        examples == Len(featurePRs(prs)) > 0 /\ ~hasExamples(prs)
    IN  [warnings |->
            (IF code THEN <<CodeWarning(Len(codeChangePRs(prs)))>> ELSE <<>>)
                \o (IF breaking THEN <<BreakingWarning(Len(breakingPRs(prs)))>>
                    ELSE <<>>)
                \o (IF api THEN <<ApiWarning(Len(apiChangePRs(prs)))>> ELSE <<>>),
         suggestions |->
            (IF code THEN <<CodeSuggestion>> ELSE <<>>)
                \o (IF breaking THEN <<BreakingSuggestion>> ELSE <<>>)
                \o (IF api THEN <<ApiSuggestion>> ELSE <<>>)
                \o (IF examples THEN <<ExamplesSuggestion(Len(featurePRs(prs)))>>
                    ELSE <<>>),
         hasBreakingChanges |-> breaking]

\* an analyzer that warns of breaking changes without raising the flag
performHeuristicDriftDetectionNoFlag(prs) ==
    LET code == Len(codeChangePRs(prs)) > 0 /\ ~hasDocChanges(prs)
        api == Len(apiChangePRs(prs)) > 0
        breaking == Len(breakingPRs(prs)) > 0
        examples == Len(featurePRs(prs)) > 0 /\ ~hasExamples(prs)
    IN  [warnings |->
            (IF code THEN <<CodeWarning(Len(codeChangePRs(prs)))>> ELSE <<>>)
                \o (IF api THEN <<ApiWarning(Len(apiChangePRs(prs)))>> ELSE <<>>)
                \o (IF breaking THEN <<BreakingWarning(Len(breakingPRs(prs)))>>
                    ELSE <<>>),
         suggestions |->
            (IF code THEN <<CodeSuggestion>> ELSE <<>>)
                \o (IF api THEN <<ApiSuggestion>> ELSE <<>>)
                \o (IF breaking THEN <<BreakingSuggestion>> ELSE <<>>)
                \o (IF examples THEN <<ExamplesSuggestion(Len(featurePRs(prs)))>>
                    ELSE <<>>),
         hasBreakingChanges |-> FALSE]

performHeuristicDriftDetection(prs) ==
    LET code == Len(codeChangePRs(prs)) > 0 /\ ~hasDocChanges(prs)
        api == Len(apiChangePRs(prs)) > 0
        breaking == Len(breakingPRs(prs)) > 0
        examples == Len(featurePRs(prs)) > 0 /\ ~hasExamples(prs)
    IN  [warnings |->
            (IF code THEN <<CodeWarning(Len(codeChangePRs(prs)))>> ELSE <<>>)
                \o (IF api THEN <<ApiWarning(Len(apiChangePRs(prs)))>> ELSE <<>>)
                \o (IF breaking THEN <<BreakingWarning(Len(breakingPRs(prs)))>>
                    ELSE <<>>),
         suggestions |->
            (IF code THEN <<CodeSuggestion>> ELSE <<>>)
                \o (IF api THEN <<ApiSuggestion>> ELSE <<>>)
                \o (IF breaking THEN <<BreakingSuggestion>> ELSE <<>>)
                \o (IF examples THEN <<ExamplesSuggestion(Len(featurePRs(prs)))>>
                    ELSE <<>>),
         hasBreakingChanges |-> breaking]

\* an EnhancedOpenAIResponse; the four analysis fields are JS values
EnhancedOpenAIResponse(changelog, entries, driftWarnings, suggestions, breaking) ==
    [changelog |-> changelog, entries |-> entries, driftWarnings |-> driftWarnings,
     suggestions |-> suggestions, hasBreakingChanges |-> breaking]

\* a fallback that returns the changelog without the heuristic drift report
generateEnhancedFallbackNoDrift(prs, clock) ==
    LET fallback == generateFallbackChangelog(prs, clock)
    IN  EnhancedOpenAIResponse(fallback.changelog, Arr(fallback.entries),
                               Arr(<<>>), Arr(<<>>), Bool(FALSE))

generateEnhancedFallback(prs, clock) ==
    LET fallback == generateFallbackChangelog(prs, clock)
        driftAnalysis == performHeuristicDriftDetection(prs)
    IN  EnhancedOpenAIResponse(fallback.changelog, Arr(fallback.entries),
                               Arr(driftAnalysis.warnings),
                               Arr(driftAnalysis.suggestions),
                               Bool(driftAnalysis.hasBreakingChanges))

\* ---- the model's reply: a sequence of chunks of raw text.  A chunk is prose
\* without braces, a serialized JSON object, or a lone brace character.

Prose == [k |-> "prose"]
OpenBrace == [k |-> "open"]
CloseBrace == [k |-> "close"]
JsonObject(o) == [k |-> "object", o |-> o]

hasOpen(chunk) == chunk.k \in {"object", "open"}

hasClose(chunk) == chunk.k \in {"object", "close"}

\* content.match(/\{[\s\S]*\}/): greedy, from the first '{' to the last '}'
\* after it; <<>> stands for null
jsonMatch(content) ==
    LET opens == {i \in 1..Len(content) : hasOpen(content[i])}
        first == CHOOSE i \in opens : \A j \in opens : i <= j
        closes == {i \in 1..Len(content) : i >= first /\ hasClose(content[i])}
        last == CHOOSE i \in closes : \A j \in closes : j <= i
    IN  IF opens = {} THEN <<>>
        ELSE IF closes = {} THEN <<>>
        ELSE SubSeq(content, first, last)

\* whether JSON.parse accepts the matched span: it is one serialized object
jsonParses(span) == Len(span) = 1 /\ span[1].k = "object"

\* whether `${v}` raises: an object without a callable toString
templateThrows(v) == v.t = "obj" /\ ~v.printable

\* `${v}` for the values a changelog field can hold
templateText(v) ==
    CASE v.t = "str" -> v.s
      [] v.t = "obj" -> <<"[object Object]">>

\* whether the try block of parseEnhancedResponse raises
parseThrows(content) ==
    \/ jsonMatch(content) = <<>>
    \/ ~jsonParses(jsonMatch(content))
    \/ templateThrows(OrElse(jsonMatch(content)[1].o.changelog, Str(<<>>)))

\* a parser whose catch returns an empty analysis instead of the fallback
parseEnhancedResponseEmptyOnError(content, prs, clock) ==
    IF parseThrows(content)
    THEN EnhancedOpenAIResponse(formatChangelog(<<>>, clock), Arr(<<>>), Arr(<<>>),
                                Arr(<<>>), Bool(FALSE))
    ELSE LET parsed == jsonMatch(content)[1].o
         IN  EnhancedOpenAIResponse(
                 formatChangelog(templateText(OrElse(parsed.changelog, Str(<<>>))),
                                 clock),
                 OrElse(parsed.entries, Arr(<<>>)),
                 OrElse(parsed.driftWarnings, Arr(<<>>)),
                 OrElse(parsed.suggestions, Arr(<<>>)),
                 OrElse(parsed.hasBreakingChanges, Bool(FALSE)))

parseEnhancedResponse(content, prs, clock) ==
    IF parseThrows(content)
    THEN generateEnhancedFallback(prs, clock)
    ELSE LET parsed == jsonMatch(content)[1].o
         IN  EnhancedOpenAIResponse(
                 formatChangelog(templateText(OrElse(parsed.changelog, Str(<<>>))),
                                 clock),
                 OrElse(parsed.entries, Arr(<<>>)),
                 OrElse(parsed.driftWarnings, Arr(<<>>)),
                 OrElse(parsed.suggestions, Arr(<<>>)),
                 OrElse(parsed.hasBreakingChanges, Bool(FALSE)))

\* the result for an empty PR list
emptyResponse ==
    EnhancedOpenAIResponse(NoChangesDocument, Arr(<<>>), Arr(<<>>), Arr(<<>>),
                           Bool(FALSE))

\* what the model call does: it raises, or it resolves with a reply
Throws == [threw |-> TRUE]
Resolves(content) == [threw |-> FALSE, content |-> content]

\* the result an exception leaving the generator stands for
Raised == [t |-> "raised"]

\* a generator whose model call sits outside the try block
generateChangelogWithAnalysisNoCatch(prs, outcome, clock) ==
    IF outcome.threw
    THEN Raised
    ELSE parseEnhancedResponse(outcome.content, prs, clock)

\* generateChangelogWithAnalysis once the model call has settled (prs non-empty)
generateChangelogWithAnalysis(prs, outcome, clock) ==
    IF outcome.threw
    THEN generateEnhancedFallback(prs, clock)
    ELSE parseEnhancedResponse(outcome.content, prs, clock)

\* ------------------------------------------------------------------ inputs

\* the day the run happens on
Day0 == 40

\* an ISO timestamp of day d
Stamp(d) == <<"day-">> \o NumStr(d)

\* PR records handed to the generator by the mock-test harness
HarnessPRs ==
    { PullRequest(1, <<"A", "d", "d", " ", "l", "o", "g", "i", "n">>, Null,
                  << <<"f", "e", "a", "t", "u", "r", "e">>, <<"b", "u", "g">> >>,
                  <<File(<<"s", "r", "c", "/", "a", "p", "p", ".", "t", "s">>)>>,
                  "squash", <<"alice">>, Stamp(Day0 - 5), <<"c", "1">>),
      PullRequest(2, <<"I", "m", "p", "l", "e", "m", "e", "n", "t", " ",
                       "s", "e", "a", "r", "c", "h">>,
                  Str(<<"N", "e", "w", " ", "e", "n", "d", "p", "o", "i", "n", "t">>),
                  << <<"E", "n", "h", "a", "n", "c", "e", "m", "e", "n", "t">> >>,
                  <<File(<<"R", "E", "A", "D", "M", "E", ".", "m", "d">>)>>,
                  "rebase", <<"bob">>, Stamp(Day0 - 4), <<"c", "2">>),
      PullRequest(3, <<"F", "i", "x", " ", "c", "r", "a", "s", "h">>,
                  Str(<<"C", "l", "e", "a", "n", "u", "p">>),
                  << <<"h", "o", "t", "f", "i", "x">> >>,
                  <<File(<<"d", "o", "c", "s", "/", "g", "u", "i", "d", "e", ".",
                           "M", "D">>)>>,
                  "merge", <<"carol">>, Stamp(Day0 - 3), <<"c", "3">>),
      PullRequest(4, <<"B", "R", "E", "A", "K", "I", "N", "G", ":", " ",
                       "n", "e", "w", " ", "A", "P", "I">>,
                  Str(<<"A", " ", "B", "r", "e", "a", "k", "i", "n", "g", " ",
                        "C", "h", "a", "n", "g", "e">>),
                  << <<"b", "r", "e", "a", "k", "i", "n", "g">>, <<"a", "p", "i">> >>,
                  <<File(<<"s", "r", "c", "/", "a", "p", "i", "/",
                           "u", "s", "e", "r", "s", ".", "t", "s">>)>>,
                  "squash", <<"diana">>, Stamp(Day0 - 2), <<"c", "4">>),
      PullRequest(5, <<"f", "i", "x", " ", "b", "u", "g">>, Null, <<>>, <<>>,
                  "merge", <<"eve">>, Stamp(Day0 - 1), <<"c", "5">>),
      PullRequest(6, <<"T", "i", "d", "y", " ", "r", "o", "u", "t", "e", "r">>,
                  Str(<<"C", "l", "e", "a", "n", "u", "p">>),
                  << <<"d", "o", "c", "s">> >>,
                  <<File(<<"l", "i", "b", "/", "r", "o", "u", "t", "e", "r", ".",
                           "p", "y">>),
                    File(<<"e", "x", "a", "m", "p", "l", "e", "s", "/",
                           "d", "e", "m", "o", ".", "j", "s">>)>>,
                  "rebase", <<"frank">>, Stamp(Day0), <<>>),
      PullRequest(7, <<"B", "u", "m", "p", " ", "d", "e", "p", "s">>, Null,
                  << <<"c", "h", "o", "r", "e">> >>,
                  <<File(<<"p", "a", "c", "k", "a", "g", "e", ".",
                           "j", "s", "o", "n">>)>>,
                  "squash", <<"alice">>, Stamp(Day0), <<"c", "7">>) }

\* a FileChange with its status and line counts
FileChange(path, status, additions, deletions) ==
    [path |-> path, status |-> status, additions |-> additions, deletions |-> deletions]

\* the five PRs testEnhancedOpenAI passes to the generator; merged_at is the
\* stamp of the day of January 2024
mockPRs ==
    << PullRequest(123,
        <<"A", "d", "d", " ", "u", "s", "e", "r", " ", "a", "u", "t", "h", "e", "n", "t",
          "i", "c", "a", "t", "i", "o", "n", " ", "s", "y", "s", "t", "e", "m">>,
        Str(<<"I", "m", "p", "l", "e", "m", "e", "n", "t", "s", " ", "O", "A", "u", "t",
              "h", "2", " ", "a", "u", "t", "h", "e", "n", "t", "i", "c", "a", "t", "i",
              "o", "n", " ", "w", "i", "t", "h", " ", "G", "o", "o", "g", "l", "e", " ",
              "a", "n", "d", " ", "G", "i", "t", "H", "u", "b", " ", "p", "r", "o", "v",
              "i", "d", "e", "r", "s", ".", " ", "I", "n", "c", "l", "u", "d", "e", "s",
              " ", "u", "s", "e", "r", " ", "s", "e", "s", "s", "i", "o", "n", " ", "m",
              "a", "n", "a", "g", "e", "m", "e", "n", "t", " ", "a", "n", "d", " ", "J",
              "W", "T", " ", "t", "o", "k", "e", "n", "s", ".">>),
        <<<<"f", "e", "a", "t", "u", "r", "e">>,
          <<"s", "e", "c", "u", "r", "i", "t", "y">>>>,
        <<FileChange(<<"s", "r", "c", "/", "a", "u", "t", "h", "/", "o", "a", "u", "t",
                       "h", ".", "t", "s">>,
                     "added", 150, 0),
          FileChange(<<"s", "r", "c", "/", "a", "u", "t", "h", "/", "s", "e", "s", "s",
                       "i", "o", "n", ".", "t", "s">>,
                     "added", 80, 0),
          FileChange(<<"s", "r", "c", "/", "t", "y", "p", "e", "s", "/", "u", "s", "e",
                       "r", ".", "t", "s">>,
                     "modified", 20, 5)>>,
        "squash", <<"alice">>, Stamp(15), <<"a", "b", "c", "1", "2", "3">>),
       PullRequest(124,
        <<"F", "i", "x", " ", "m", "e", "m", "o", "r", "y", " ", "l", "e", "a", "k", " ",
          "i", "n", " ", "d", "a", "t", "a", " ", "p", "r", "o", "c", "e", "s", "s", "o",
          "r">>,
        Str(<<"R", "e", "s", "o", "l", "v", "e", "s", " ", "i", "s", "s", "u", "e", " ",
              "w", "h", "e", "r", "e", " ", "l", "a", "r", "g", "e", " ", "d", "a", "t",
              "a", "s", "e", "t", "s", " ", "w", "o", "u", "l", "d", " ", "c", "a", "u",
              "s", "e", " ", "m", "e", "m", "o", "r", "y", " ", "t", "o", " ", "g", "r",
              "o", "w", " ", "i", "n", "d", "e", "f", "i", "n", "i", "t", "e", "l", "y",
              ".", " ", "A", "d", "d", "e", "d", " ", "p", "r", "o", "p", "e", "r", " ",
              "c", "l", "e", "a", "n", "u", "p", " ", "a", "n", "d", " ", "g", "a", "r",
              "b", "a", "g", "e", " ", "c", "o", "l", "l", "e", "c", "t", "i", "o", "n",
              ".">>),
        <<<<"b", "u", "g">>,
          <<"p", "e", "r", "f", "o", "r", "m", "a", "n", "c", "e">>>>,
        <<FileChange(<<"s", "r", "c", "/", "p", "r", "o", "c", "e", "s", "s", "o", "r",
                       "/", "d", "a", "t", "a", ".", "t", "s">>,
                     "modified", 25, 10),
          FileChange(<<"s", "r", "c", "/", "p", "r", "o", "c", "e", "s", "s", "o", "r",
                       "/", "c", "l", "e", "a", "n", "u", "p", ".", "t", "s">>,
                     "added", 45, 0),
          FileChange(<<"t", "e", "s", "t", "s", "/", "p", "r", "o", "c", "e", "s", "s",
                       "o", "r", ".", "t", "e", "s", "t", ".", "t", "s">>,
                     "modified", 30, 5)>>,
        "rebase", <<"bob">>, Stamp(16), <<"d", "e", "f", "4", "5", "6">>),
       PullRequest(125,
        <<"U", "p", "d", "a", "t", "e", " ", "A", "P", "I", " ", "d", "o", "c", "u", "m",
          "e", "n", "t", "a", "t", "i", "o", "n">>,
        Str(<<"U", "p", "d", "a", "t", "e", "s", " ", "d", "o", "c", "u", "m", "e", "n",
              "t", "a", "t", "i", "o", "n", " ", "f", "o", "r", " ", "n", "e", "w", " ",
              "a", "u", "t", "h", "e", "n", "t", "i", "c", "a", "t", "i", "o", "n", " ",
              "e", "n", "d", "p", "o", "i", "n", "t", "s", " ", "a", "n", "d", " ", "a",
              "d", "d", "s", " ", "e", "x", "a", "m", "p", "l", "e", "s", ".">>),
        <<<<"d", "o", "c", "s">>>>,
        <<FileChange(<<"d", "o", "c", "s", "/", "a", "p", "i", "/", "a", "u", "t", "h",
                       ".", "m", "d">>,
                     "modified", 100, 20),
          FileChange(<<"d", "o", "c", "s", "/", "e", "x", "a", "m", "p", "l", "e", "s",
                       "/", "a", "u", "t", "h", "-", "f", "l", "o", "w", ".", "m", "d">>,
                     "added", 50, 0),
          FileChange(<<"R", "E", "A", "D", "M", "E", ".", "m", "d">>,
                     "modified", 15, 3)>>,
        "merge", <<"charlie">>, Stamp(17), <<"g", "h", "i", "7", "8", "9">>),
       PullRequest(126,
        <<"B", "R", "E", "A", "K", "I", "N", "G", ":", " ", "R", "e", "d", "e", "s", "i",
          "g", "n", " ", "u", "s", "e", "r", " ", "A", "P", "I", " ", "e", "n", "d", "p",
          "o", "i", "n", "t", "s">>,
        Str(<<"C", "o", "m", "p", "l", "e", "t", "e", " ", "o", "v", "e", "r", "h", "a",
              "u", "l", " ", "o", "f", " ", "u", "s", "e", "r", " ", "m", "a", "n", "a",
              "g", "e", "m", "e", "n", "t", " ", "A", "P", "I", ".", " ", "T", "h", "i",
              "s", " ", "i", "s", " ", "a", " ", "b", "r", "e", "a", "k", "i", "n", "g",
              " ", "c", "h", "a", "n", "g", "e", " ", "t", "h", "a", "t", " ", "r", "e",
              "q", "u", "i", "r", "e", "s", " ", "m", "i", "g", "r", "a", "t", "i", "o",
              "n", ".">>),
        <<<<"b", "r", "e", "a", "k", "i", "n", "g">>,
          <<"a", "p", "i">>>>,
        <<FileChange(<<"s", "r", "c", "/", "a", "p", "i", "/", "u", "s", "e", "r", "s",
                       ".", "t", "s">>,
                     "modified", 200, 150),
          FileChange(<<"s", "r", "c", "/", "a", "p", "i", "/", "t", "y", "p", "e", "s",
                       ".", "t", "s">>,
                     "modified", 50, 30),
          FileChange(<<"m", "i", "g", "r", "a", "t", "i", "o", "n", "s", "/", "v", "2",
                       "-", "u", "s", "e", "r", "-", "a", "p", "i", ".", "s", "q", "l">>,
                     "added", 75, 0)>>,
        "squash", <<"diana">>, Stamp(18), <<"j", "k", "l", "0", "1", "2">>),
       PullRequest(127,
        <<"A", "d", "d", " ", "r", "e", "a", "l", "-", "t", "i", "m", "e", " ", "n", "o",
          "t", "i", "f", "i", "c", "a", "t", "i", "o", "n", "s">>,
        Str(<<"I", "m", "p", "l", "e", "m", "e", "n", "t", "s", " ", "W", "e", "b", "S",
              "o", "c", "k", "e", "t", "-", "b", "a", "s", "e", "d", " ", "n", "o", "t",
              "i", "f", "i", "c", "a", "t", "i", "o", "n", "s", " ", "f", "o", "r", " ",
              "u", "s", "e", "r", " ", "a", "c", "t", "i", "o", "n", "s", " ", "a", "n",
              "d", " ", "s", "y", "s", "t", "e", "m", " ", "e", "v", "e", "n", "t", "s",
              ".">>),
        <<<<"f", "e", "a", "t", "u", "r", "e">>,
          <<"r", "e", "a", "l", "t", "i", "m", "e">>>>,
        <<FileChange(<<"s", "r", "c", "/", "n", "o", "t", "i", "f", "i", "c", "a", "t",
                       "i", "o", "n", "s", "/", "w", "e", "b", "s", "o", "c", "k", "e",
                       "t", ".", "t", "s">>,
                     "added", 120, 0),
          FileChange(<<"s", "r", "c", "/", "n", "o", "t", "i", "f", "i", "c", "a", "t",
                       "i", "o", "n", "s", "/", "e", "v", "e", "n", "t", "s", ".", "t",
                       "s">>,
                     "added", 90, 0),
          FileChange(<<"s", "r", "c", "/", "s", "e", "r", "v", "e", "r", ".", "t", "s">>,
                     "modified", 25, 5),
          FileChange(<<"p", "a", "c", "k", "a", "g", "e", ".", "j", "s", "o", "n">>,
                     "modified", 3, 0)>>,
        "rebase", <<"eve">>, Stamp(19), <<"m", "n", "o", "3", "4", "5">>) >>

\* all sequences over S of length at most n
SeqsUpTo(S, n) == UNION {[1..k -> S] : k \in 0..n}

\* those of them that hold no element twice
DistinctSeqsUpTo(S, n) ==
    {l \in SeqsUpTo(S, n) : \A i, j \in 1..Len(l) : i # j => l[i] # l[j]}

\* PR records that carry the markers of the drift rules one at a time: a
\* breaking marker in the title (#11), the body (#12) or a label (#13) alone,
\* 'breaking' without 'change' in a body (#14), 'endpoint' in a title and 'API'
\* in a body (#15), a feature label (#16), 'endpoint' in a body (#17), a
\* router path (#18), an api path (#19), 'api' inside a title (#20), and code,
\* documentation, example and demo paths in upper and lower case
DriftPRs ==
    {
      PullRequest(11, <<"B", "r", "e", "a", "k", "i", "n", "g", " ", "p",
                  "a", "r", "s", "e", "r">>, Null, <<>>, <<>>, "squash", <<"alice">>,
                  Stamp(Day0 - 1), <<"c", "1">>),
      PullRequest(12, <<"T", "i", "d", "y">>, Str(<<"a", " ", "b", "r", "e",
                  "a", "k", "i", "n", "g", " ", "c", "h", "a", "n", "g", "e">>), <<>>,
                  <<File(<<"n", "o", "t", "e", "s", ".", "t", "x", "t">>)>>, "merge",
                  <<"bob">>, Stamp(Day0 - 1), <<"c", "2">>),
      PullRequest(13, <<"T", "i", "d", "y", " ", "u", "p">>, Null, <<<<"B",
                  "R", "E", "A", "K", "I", "N", "G">>>>, <<File(<<"s", "r", "c", "/",
                  "A", "P", "I", ".", "g", "o">>)>>, "rebase", <<"carol">>,
                  Stamp(Day0 - 1), <<"c", "3">>),
      PullRequest(14, <<"C", "l", "e", "a", "n", "u", "p">>, Str(<<"I", "t",
                  " ", "i", "s", " ", "b", "r", "e", "a", "k", "i", "n", "g">>), <<>>,
                  <<File(<<"l", "i", "b", "/", "x", ".", "r", "s", "t">>)>>, "squash",
                  <<"diana">>, Stamp(Day0 - 1), <<"c", "4">>),
      PullRequest(15, <<"N", "e", "w", " ", "e", "n", "d", "p", "o", "i",
                  "n", "t">>, Str(<<"U", "s", "e", "s", " ", "t", "h", "e", " ", "A",
                  "P", "I">>), <<>>, <<File(<<"a", "p", "p", ".", "C">>)>>, "merge",
                  <<"eve">>, Stamp(Day0 - 1), <<"c", "5">>),
      PullRequest(16, <<"Q", "u", "i", "c", "k", " ", "s", "y", "n", "c">>,
                  Null, <<<<"F", "e", "a", "t", "u", "r", "e">>>>, <<>>, "squash",
                  <<"frank">>, Stamp(Day0 - 1), <<"c", "6">>),
      PullRequest(17, <<"S", "y", "n", "c">>, Str(<<"N", "e", "w", " ", "E",
                  "n", "d", "p", "o", "i", "n", "t">>), <<>>, <<File(<<"d", "e", "m",
                  "o", "/", "r", "u", "n", ".", "s", "h">>)>>, "rebase", <<"alice">>,
                  Stamp(Day0 - 1), <<"c", "7">>),
      PullRequest(18, <<"P", "a", "d", "d", "i", "n", "g">>, Null, <<>>,
                  <<File(<<"s", "r", "c", "/", "r", "o", "u", "t", "e", "r", ".", "t",
                  "s">>)>>, "squash", <<"bob">>, Stamp(Day0 - 1), <<"c", "8">>),
      PullRequest(19, <<"R", "e", "i", "m", "p", "l", "e", "m", "e", "n",
                  "t", " ", "c", "a", "c", "h", "e">>, Null, <<>>, <<File(<<"c", "o",
                  "n", "f", "i", "g", "/", "a", "p", "i", ".", "y", "m", "l">>)>>,
                  "merge", <<"carol">>, Stamp(Day0 - 1), <<"c", "9">>),
      PullRequest(20, <<"R", "a", "p", "i", "d">>, Null, <<>>, <<File(<<"d", "o",
                  "c", "s", "/", "e", "x", "a", "m", "p", "l", "e", ".", "m", "d">>)>>,
                  "squash", <<"diana">>, Stamp(Day0 - 1), <<"c", "0">>) }

\* an entry of the model's JSON for PR number n
ModelEntry(n) ==
    [type |-> "feature", description |-> <<"Something new">>, pr_number |-> n,
     author |-> <<"alice">>]

\* the number no collected PR carries
UnknownPR == 99

\* values the model's JSON gives the changelog field
ChangelogValues == {Undefined, Str(<<"## Features", "\n", "- Something new (#1)">>)}

\* values the model's JSON gives the entries field
EntriesValues == {Undefined, Null, Arr(<<ModelEntry(1)>>), Arr(<<ModelEntry(UnknownPR)>>),
                  Str(<<"o", "o", "p", "s">>)}

\* values the model's JSON gives the driftWarnings field
WarningsValues == {Undefined, Null, Arr(<<>>), Arr(<< <<"README is stale">> >>),
                   Str(<<"o", "o", "p", "s">>), Num(5)}

\* values the model's JSON gives the suggestions field
SuggestionsValues == {Undefined, Arr(<< <<"Update README">> >>),
                      Str(<<"o", "o", "p", "s">>)}

\* values the model's JSON gives the hasBreakingChanges field
BreakingValues == {Undefined, Bool(TRUE), Bool(FALSE), Num(0)}

\* a reply with every field well-formed
GoodObject ==
    [changelog |-> Str(<<"## Features", "\n", "- Something new (#1)">>),
     entries |-> Arr(<<ModelEntry(1)>>),
     driftWarnings |-> Arr(<< <<"README is stale">> >>),
     suggestions |-> Arr(<< <<"Update README">> >>),
     hasBreakingChanges |-> Bool(TRUE)]

\* a reply without any of the five fields
EmptyObject ==
    [changelog |-> Undefined, entries |-> Undefined, driftWarnings |-> Undefined,
     suggestions |-> Undefined, hasBreakingChanges |-> Undefined]

\* the objects the model's JSON can decode to; the last two carry a changelog
\* that is an object whose toString is not callable
ParsedObjects ==
    [changelog : ChangelogValues, entries : EntriesValues,
     driftWarnings : WarningsValues, suggestions : SuggestionsValues,
     hasBreakingChanges : BreakingValues]
        \cup {[GoodObject EXCEPT !.changelog = Obj(FALSE)],
              [EmptyObject EXCEPT !.changelog = Obj(FALSE)]}

\* the objects that differ from GoodObject in at most one field
NearGoodObjects ==
    {[GoodObject EXCEPT !.changelog = v] : v \in ChangelogValues \cup {Obj(FALSE)}}
        \cup {[GoodObject EXCEPT !.entries = v] : v \in EntriesValues}
        \cup {[GoodObject EXCEPT !.driftWarnings = v] : v \in WarningsValues}
        \cup {[GoodObject EXCEPT !.suggestions = v] : v \in SuggestionsValues}
        \cup {[GoodObject EXCEPT !.hasBreakingChanges = v] : v \in BreakingValues}

\* replies without a parsable JSON object, and replies that wrap one in commentary
OddReplies ==
    { <<>>, <<Prose>>, <<OpenBrace, Prose, CloseBrace>>, <<Prose, CloseBrace>>,
      <<OpenBrace, Prose>>,
      <<Prose, JsonObject(GoodObject), Prose>>,
      <<JsonObject(GoodObject), Prose, CloseBrace>>,
      <<JsonObject(GoodObject), JsonObject(GoodObject)>> }

\* what the model call can do, per caller: the harness sees every object, a
\* run and the drift records the objects with at most one malformed field
ModelOutcomes(who) ==
    {Throws} \cup {Resolves(c) : c \in OddReplies}
        \cup {Resolves(<<JsonObject(o)>>) :
                o \in IF who = "harness" THEN ParsedObjects ELSE NearGoodObjects}

\* ------------------------------------------------ collector (github.ts)

\* new Date(NaN)
InvalidDate == [valid |-> FALSE, day |-> 0]

Date(d) == [valid |-> TRUE, day |-> d]

isDigit(c) == c \in {"0", "1", "2", "3", "4", "5", "6", "7", "8", "9"}

DigitValue(c) ==
    CASE c = "0" -> 0 [] c = "1" -> 1 [] c = "2" -> 2 [] c = "3" -> 3
      [] c = "4" -> 4 [] c = "5" -> 5 [] c = "6" -> 6 [] c = "7" -> 7
      [] c = "8" -> 8 [] c = "9" -> 9

\* parseInt of a run of decimal digits
RECURSIVE parseInt(_)
parseInt(ds) ==
    IF Len(ds) = 0 THEN 0
    ELSE 10 * parseInt(SubSeq(ds, 1, Len(ds) - 1)) + DigitValue(ds[Len(ds)])

\* new Date(text): a timestamp is "day-" followed by digits, anything else is
\* an invalid date
newDate(s) ==
    IF /\ Len(s) >= 2
       /\ s[1] = "day-"
       /\ \A i \in 2..Len(s) : isDigit(s[i])
    THEN Date(parseInt(Tail(s)))
    ELSE InvalidDate

\* a < b on dates: false when either is invalid (NaN)
before(a, b) == a.valid /\ b.valid /\ a.day < b.day

\* days subtracted by getLastReleaseDate when there is no release
ThirtyDays == 30

\* a lookup whose default is the current time, the thirty days not subtracted
getLastReleaseDateNow(threw, releases, clock) ==
    IF ~threw /\ Len(releases) > 0
    THEN releases[1].created_at
    ELSE Stamp(clock)

\* the string getLastReleaseDate returns; releases is the listing, <<>> when
\* it is empty, and threw says the lookup raised
getLastReleaseDate(threw, releases, clock) ==
    IF ~threw /\ Len(releases) > 0
    THEN releases[1].created_at
    ELSE Stamp(clock - ThirtyDays)

\* ---- commit-log scan.  A line of git log output is the sequence of its
\* fields between '|'; a commit subject is text in which the phrase
\* "Merge pull request #" is one segment and everything else one character
\* per segment.

MergeMarker == "Merge pull request #"

\* the positions where /Merge pull request #(\d+)/ matches
markerPositions(message) ==
    {i \in 1..(Len(message) - 1) : message[i] = MergeMarker /\ isDigit(message[i + 1])}

\* the last digit of the run of digits that starts at position i
RECURSIVE digitsEnd(_, _)
digitsEnd(message, i) ==
    IF i < Len(message) /\ isDigit(message[i + 1])
    THEN digitsEnd(message, i + 1)
    ELSE i

\* message.match(/Merge pull request #(\d+)/): the captured digits, <<>> for null
prMatch(message) ==
    IF markerPositions(message) = {} THEN <<>>
    ELSE LET i == CHOOSE p \in markerPositions(message) :
                      \A q \in markerPositions(message) : p <= q
         IN  SubSeq(message, i + 1, digitsEnd(message, i + 1))

\* the positions where /Merge pull request #\d+ from [^/]+\/(.+)/ matches
titlePositions(message) ==
    {i \in markerPositions(message) :
        LET e == digitsEnd(message, i + 1)
            slashes == {j \in (e + 2)..Len(message) : message[j] = "/"}
        IN  /\ e + 1 <= Len(message)
            /\ message[e + 1] = " from "
            /\ slashes # {}
            /\ (CHOOSE j \in slashes : \A k \in slashes : j <= k) > e + 2
            /\ (CHOOSE j \in slashes : \A k \in slashes : j <= k) < Len(message)}

\* message.match(/Merge pull request #\d+ from [^/]+\/(.+)/): the captured
\* branch name, <<>> for null
titleMatch(message) ==
    IF titlePositions(message) = {} THEN <<>>
    ELSE LET i == CHOOSE p \in titlePositions(message) :
                      \A q \in titlePositions(message) : p <= q
             e == digitsEnd(message, i + 1)
             slashes == {j \in (e + 2)..Len(message) : message[j] = "/"}
             slash == CHOOSE j \in slashes : \A k \in slashes : j <= k
         IN  SubSeq(message, slash + 1, Len(message))

\* text.replace(/-/g, ' ')
replaceDashes(text) == [i \in 1..Len(text) |-> IF text[i] = "-" THEN " " ELSE text[i]]

\* a loop body that gives the record an empty body text instead of none
gitRecordEmptyBody(line) ==
    PullRequest(parseInt(prMatch(line[2])),
                IF titleMatch(line[2]) # <<>>
                THEN replaceDashes(titleMatch(line[2]))
                ELSE line[2],
                Str(<<>>), <<>>, <<>>, "merge", line[3], line[4], line[1])

\* the record collectPRsFromGit pushes for one line with a PR number
gitRecord(line) ==
    PullRequest(parseInt(prMatch(line[2])),
                IF titleMatch(line[2]) # <<>>
                THEN replaceDashes(titleMatch(line[2]))
                ELSE line[2],
                Null, <<>>, <<>>, "merge", line[3], line[4], line[1])

\* the loop of collectPRsFromGit over the lines of stdout
RECURSIVE parseGitLog(_)
parseGitLog(lines) ==
    IF Len(lines) = 0 THEN <<>>
    ELSE (IF prMatch(Head(lines)[2]) = <<>> THEN <<>> ELSE <<gitRecord(Head(lines))>>)
            \o parseGitLog(Tail(lines))

\* ---- full-listing scan

\* a skip test that also drops a PR merged at the cutoff itself
survivesAfterCutoff(pr, cutoff) ==
    /\ Truthy(pr.merged_at)
    /\ before(cutoff, newDate(pr.merged_at.s))

\* whether the loop of collectPRsFallback keeps a listed PR
survives(pr, cutoff) ==
    ~(~Truthy(pr.merged_at) \/ before(newDate(pr.merged_at.s), cutoff))

\* pr.labels?.map(...).filter(name !== undefined) || []
labelNames(labels) ==
    LET names == map(labels, LAMBDA l : IF l.t = "str" THEN l ELSE l.name)
    IN  map(SelectSeq(names, LAMBDA n : n # Undefined), LAMBDA n : n.s)

\* the body of getPRFiles' map
fileChanges(apiFiles) ==
    map(apiFiles, LAMBDA f :
        [path |-> f.filename, status |-> f.status, additions |-> f.additions,
         deletions |-> f.deletions])

\* the '' a falsy optional string is replaced by
textOrEmpty(v) == IF Truthy(v) THEN v.s ELSE <<>>

\* a push that leaves the file list of the record empty
listedRecordNoFiles(pr, prFiles, strategy) ==
    PullRequest(pr.number, pr.title, OrElse(pr.body, Null), labelNames(pr.labels),
                <<>>, strategy,
                IF pr.user.t = "user" /\ Truthy(pr.user.login)
                THEN pr.user.login.s ELSE <<"unknown">>,
                textOrEmpty(pr.merged_at), textOrEmpty(pr.merge_commit_sha))

\* the record collectPRsFallback pushes
listedRecord(pr, prFiles, strategy) ==
    PullRequest(pr.number, pr.title, OrElse(pr.body, Null), labelNames(pr.labels),
                prFiles, strategy,
                IF pr.user.t = "user" /\ Truthy(pr.user.login)
                THEN pr.user.login.s ELSE <<"unknown">>,
                textOrEmpty(pr.merged_at), textOrEmpty(pr.merge_commit_sha))

\* what git.getCommit does: it raises, or it resolves with a commit
FetchThrows == [threw |-> TRUE]
Commit(parents, message) == [threw |-> FALSE, parents |-> parents, message |-> message]

\* a classifier that takes any commit with two or more parents for a merge
classifyCommitAtLeastTwo(pr, fetch) ==
    IF fetch.threw THEN "squash"
    ELSE IF fetch.parents = 1
         THEN IF \/ includes(fetch.message, pr.title)
                 \/ includes(fetch.message, <<"#">> \o NumStr(pr.number))
              THEN "squash"
              ELSE "rebase"
    ELSE IF fetch.parents >= 2 THEN "merge"
    ELSE "squash"

\* detectMergeStrategy once the commit fetch has settled
classifyCommit(pr, fetch) ==
    IF fetch.threw THEN "squash"
    ELSE IF fetch.parents = 1
         THEN IF \/ includes(fetch.message, pr.title)
                 \/ includes(fetch.message, <<"#">> \o NumStr(pr.number))
              THEN "squash"
              ELSE "rebase"
    ELSE IF fetch.parents = 2 THEN "merge"
    ELSE "squash"

\* ---- what the hosting API, the git command and the action inputs can hold

ApiPR(number, title, body, labels, user, mergedAt, sha) ==
    [number |-> number, title |-> title, body |-> body, labels |-> labels,
     user |-> user, merged_at |-> mergedAt, merge_commit_sha |-> sha]

User(login) == [t |-> "user", login |-> Str(<<login>>)]

LabelObject(name) == [t |-> "label", name |-> name]

\* the closed PRs pulls.list can return: one never merged, one merged before
\* every cutoff, and two merged later
ListedPRs ==
    { ApiPR(11, <<"R", "e", "f", "a", "c", "t", "o", "r">>,
            Str(<<"C", "l", "e", "a", "n", "u", "p">>), <<>>, User("alice"),
            Null, Null),
      ApiPR(12, <<"A", "d", "d", " ", "l", "o", "g", "i", "n">>, Null,
            <<Str(<<"f", "e", "a", "t", "u", "r", "e">>)>>, User("bob"),
            Str(Stamp(Day0 - 32)), Str(<<"c", "2">>)),
      ApiPR(13, <<"F", "i", "x", " ", "c", "r", "a", "s", "h">>, Str(<<>>),
            <<LabelObject(Str(<<"b", "u", "g">>)), LabelObject(Undefined)>>, Null,
            Str(Stamp(Day0 - 30)), Null),
      ApiPR(14, <<"B", "R", "E", "A", "K", "I", "N", "G", ":", " ",
                  "n", "e", "w", " ", "A", "P", "I">>,
            Str(<<"N", "e", "w", " ", "e", "n", "d", "p", "o", "i", "n", "t">>),
            <<Str(<<"b", "r", "e", "a", "k", "i", "n", "g">>)>>, User("diana"),
            Str(Stamp(Day0 - 29)), Str(<<"c", "4">>)) }

\* the listings pulls.list can return: no PR twice
Listings ==
    DistinctSeqsUpTo(ListedPRs, MaxListed)

ApiFile(filename) ==
    [filename |-> filename, status |-> "modified", additions |-> 1, deletions |-> 0]

\* what pulls.listFiles returns for a PR number
ApiFiles(number) ==
    CASE number = 12 ->
            <<ApiFile(<<"s", "r", "c", "/", "a", "p", "p", ".", "t", "s">>)>>
      [] number = 14 ->
            <<ApiFile(<<"s", "r", "c", "/", "a", "p", "i", "/",
                        "u", "s", "e", "r", "s", ".", "t", "s">>),
              ApiFile(<<"R", "E", "A", "D", "M", "E", ".", "m", "d">>)>>
      [] OTHER -> <<>>

\* what git.getCommit can do for a PR
CommitOutcomes(pr) ==
    { FetchThrows,
      Commit(1, <<"c", "l", "o", "s", "e", "s", " ", "#">> \o NumStr(pr.number)),
      Commit(1, <<"l", "a", "n", "d", " ">> \o pr.title),
      Commit(1, <<"w", "i", "p">>),
      Commit(2, <<"w", "i", "p">>),
      Commit(3, <<"w", "i", "p">>) }

\* lines of git log output: a merge commit, the revert of that merge, a merge
\* subject without a branch, a subject that only resembles the phrase, and a
\* subject holding a '|'
GitLines ==
    { << <<"h1">>,
         <<MergeMarker, "5", " from ", "a", "l", "/", "f", "i", "x", "-", "b", "u", "g">>,
         <<"alice">>, Stamp(Day0 - 1) >>,
      << <<"h2">>,
         <<"R", "e", "v", "e", "r", "t", " ", MergeMarker, "5", " from ",
           "a", "l", "/", "f", "i", "x", "-", "b", "u", "g">>,
         <<"bob">>, Stamp(Day0) >>,
      << <<"h3">>, <<MergeMarker, "1", "2">>, <<"carol">>, Stamp(Day0 - 2) >>,
      << <<"h4">>, <<"M", "e", "r", "g", "e", " ", "p", "u", "l", "l", "s">>,
         <<"diana">>, Stamp(Day0 - 3) >>,
      << <<"h5">>, <<MergeMarker, "7", " from ", "e", "v", "/", "a">>, <<"b">>,
         <<"eve">>, Stamp(Day0 - 4) >> }

\* what the git command can do: it raises, or it prints lines
GitThrows == [threw |-> TRUE]
GitPrints(lines) == [threw |-> FALSE, lines |-> lines]

\* no commit is printed twice
GitOutcomes ==
    {GitThrows} \cup {GitPrints(l) : l \in DistinctSeqsUpTo(GitLines, MaxLines)}

\* the releases repos.listReleases can return (per_page: 1)
ReleaseListings == {<<>>, <<[created_at |-> Stamp(Day0 - 29)]>>}

\* the `since` input: absent, a timestamp, or text that is no date
SinceInputs ==
    {<<>>, Stamp(Day0 - 31), <<"l", "a", "s", "t", " ", "w", "e", "e", "k">>}

\* the action inputs: missing names the required input that is absent
Configs ==
    [missing : {"none", "openai_api_key", "github_token", "repository"},
     since : SinceInputs]

\* ------------------------------------------------------------------- state

VARIABLES
    pc,             \* where the caller stands
    caller,         \* "run" (index.ts) or "harness" (testEnhancedOpenAI)
    now,            \* the current day
    config,         \* run: the action inputs
    since,          \* run: the sinceDate string handed to collectPRs
    sinceDate,      \* collectPRs: new Date(since)
    attempts,       \* the collection sources entered, with how each ended
    calls,          \* every external call made, in order
    replies,        \* what the release lookup and the commit fetches answered
    listing,        \* collectPRsFallback: allPrs
    idx,            \* collectPRsFallback: position of the loop in allPrs
    files,          \* collectPRsFallback: files of the PR being enriched
    acc,            \* collectPRsFallback: the prs array being built
    prs,            \* the PR records collected, or given by the harness
    outcome,        \* what the model call did
    result,         \* what generateChangelogWithAnalysis returned
    finalChangelog, \* run: finalChangelog
    outputs,        \* run: the outputs set with core.setOutput
    summary,        \* run: the headings added to core.summary
    logged,         \* run: the core.warning calls made, by kind
    failed          \* run: whether core.setFailed was called

vars == <<pc, caller, now, config, since, sinceDate, attempts, calls, replies,
          listing, idx,
          files, acc, prs, outcome, result, finalChangelog, outputs, summary,
          logged, failed>>

\* the variables of the collector
collectorVars == <<since, sinceDate, attempts, replies, listing, idx, files, acc>>

\* the variables of run after the generator returned
assemblyVars == <<finalChangelog, outputs, summary, logged, failed>>

\* a value not yet assigned
Unset == [t |-> "unset"]

\* one external call; n is the PR number it is about, 0 if none
Call(op, n) == [op |-> op, n |-> n]

\* what a call about PR n (0 if none) answered
Reply(op, n, answer) == [op |-> op, n |-> n, answer |-> answer]

\* a collection source and how its attempt ended
Attempt(source, status) == [source |-> source, status |-> status]

\* the state shared by both callers before anything ran
Blank ==
    /\ since = <<>>
    /\ sinceDate = InvalidDate
    /\ attempts = <<>>
    /\ calls = <<>>
    /\ replies = <<>>
    /\ listing = <<>>
    /\ idx = 0
    /\ files = <<>>
    /\ acc = <<>>
    /\ outcome = Unset
    /\ result = Unset
    /\ finalChangelog = <<>>
    /\ outputs = [changelog |-> Unset, drift_warnings |-> Unset]
    /\ summary = <<>>
    /\ logged = {}
    /\ failed = FALSE

\* run() is entered with the action inputs
Init ==
    /\ Blank
    /\ pc = "start"
    /\ caller = "run"
    /\ now = Day0
    /\ config \in Configs
    /\ prs = <<>>

\* testEnhancedOpenAI about to call the generator on its PR records
InitHarness ==
    /\ Blank
    /\ pc = "generate"
    /\ caller = "harness"
    /\ now = Day0
    /\ config = Unset
    /\ prs \in DistinctSeqsUpTo(HarnessPRs, MaxPRs) \cup {mockPRs}

\* a caller about to hand the generator records that exercise the drift rules
InitDrift ==
    /\ Blank
    /\ pc = "generate"
    /\ caller = "analysis"
    /\ now = Day0
    /\ config = Unset
    /\ prs \in DistinctSeqsUpTo(DriftPRs, MaxPRs)

\* ---- run, steps 1 and 2 (index.ts) and the collector (github.ts)

\* the catch block of run
SetFailed ==
    /\ failed' = TRUE
    /\ pc' = "done"

\* a collector that goes to the full listing without scanning the commit log
collectPRsListFirst(s, cs) ==
    /\ since' = s
    /\ sinceDate' = newDate(s)
    /\ attempts' = <<Attempt("list", "pending")>>
    /\ calls' = Append(cs, Call("pulls.list", 0))
    /\ pc' = "list"

\* collectPRs(s) up to its first await, after the calls cs: the git command is
\* built and issued, or toISOString raises on an invalid date and the catch
\* block issues pulls.list
collectPRs(s, cs) ==
    /\ since' = s
    /\ sinceDate' = newDate(s)
    /\ IF newDate(s).valid
       THEN /\ attempts' = <<Attempt("git", "pending")>>
            /\ calls' = Append(cs, Call("git log", 0))
            /\ pc' = "git"
       ELSE /\ attempts' = <<Attempt("git", "error"), Attempt("list", "pending")>>
            /\ calls' = Append(cs, Call("pulls.list", 0))
            /\ pc' = "list"

\* a run that hands the generator the empty list as well
afterCollectNoShortCut(list) ==
    /\ prs' = list
    /\ outputs' = outputs
    /\ pc' = "generate"

\* run from the return of collectPRs to its next await: the zero-PR return, or
\* on to the generator
afterCollect(list) ==
    /\ prs' = list
    /\ IF Len(list) = 0
       THEN /\ outputs' = [changelog |-> NoChangesDocument, drift_warnings |-> <<>>]
            /\ pc' = "done"
       ELSE /\ outputs' = outputs
            /\ pc' = "generate"

\* run validates its inputs and either takes the `since` input or asks for the
\* last release
RunStart ==
    /\ pc = "start"
    /\ IF config.missing # "none"
       THEN /\ SetFailed
            /\ UNCHANGED <<since, sinceDate, attempts, calls>>
       ELSE IF config.since # <<>>
       THEN /\ collectPRs(config.since, calls)
            /\ failed' = failed
       ELSE /\ calls' = Append(calls, Call("listReleases", 0))
            /\ pc' = "release"
            /\ UNCHANGED <<since, sinceDate, attempts, failed>>
    /\ UNCHANGED <<caller, now, config, replies, listing, idx, files, acc, prs,
                   outcome, result, finalChangelog, outputs, summary, logged>>

\* repos.listReleases settles; getLastReleaseDate returns and collectPRs starts
ReleaseSettles ==
    /\ pc = "release"
    /\ \E threw \in BOOLEAN, releases \in ReleaseListings :
          /\ threw => releases = <<>>
          /\ collectPRs(getLastReleaseDate(threw, releases, now), calls)
          /\ replies' = Append(replies,
                   Reply("listReleases", 0, [threw |-> threw, releases |-> releases]))
    /\ UNCHANGED <<caller, now, config, listing, idx, files, acc, prs, outcome,
                   result, assemblyVars>>

\* the attempts with the pending one settled
settled(att, status) == [att EXCEPT ![Len(att)].status = status]

\* the git command settles: its lines are parsed and returned, or the catch
\* block issues pulls.list
GitSettles ==
    /\ pc = "git"
    /\ \E g \in GitOutcomes :
          IF g.threw
          THEN /\ attempts' = Append(settled(attempts, "error"),
                                     Attempt("list", "pending"))
               /\ calls' = Append(calls, Call("pulls.list", 0))
               /\ pc' = "list"
               /\ UNCHANGED <<prs, outputs>>
          ELSE /\ attempts' = settled(attempts, "ok")
               /\ calls' = calls
               /\ afterCollect(parseGitLog(g.lines))
    /\ UNCHANGED <<caller, now, config, since, sinceDate, replies, listing, idx,
                   files, acc, outcome, result, finalChangelog, summary, logged,
                   failed>>

\* the first position from i on whose PR the loop keeps, Len(list) + 1 if none
RECURSIVE nextKept(_, _, _)
nextKept(list, i, cutoff) ==
    IF i > Len(list) THEN i
    ELSE IF survives(list[i], cutoff) THEN i
    ELSE nextKept(list, i + 1, cutoff)

\* a loop that asks for the files and the commit of a PR in one go
fallbackLoopBothAtOnce(list, i, a) ==
    LET j == nextKept(list, i, sinceDate)
    IN  /\ idx' = j
        /\ acc' = a
        /\ IF j > Len(list)
           THEN /\ attempts' = settled(attempts, "ok")
                /\ calls' = calls
                /\ afterCollect(a)
           ELSE /\ attempts' = attempts
                /\ calls' = calls \o <<Call("pulls.listFiles", list[j].number),
                                       Call("git.getCommit", list[j].number)>>
                /\ pc' = "files"
                /\ UNCHANGED <<prs, outputs>>

\* the loop of collectPRsFallback from position i with the array a, up to its
\* next await: the files of the next kept PR are asked for, or the loop ends
\* and the array is returned to run
fallbackLoop(list, i, a) ==
    LET j == nextKept(list, i, sinceDate)
    IN  /\ idx' = j
        /\ acc' = a
        /\ IF j > Len(list)
           THEN /\ attempts' = settled(attempts, "ok")
                /\ calls' = calls
                /\ afterCollect(a)
           ELSE /\ attempts' = attempts
                /\ calls' = Append(calls, Call("pulls.listFiles", list[j].number))
                /\ pc' = "files"
                /\ UNCHANGED <<prs, outputs>>

\* a listing step whose error is swallowed into an empty result
ListSettlesSwallowed ==
    /\ pc = "list"
    /\ \/ /\ attempts' = settled(attempts, "error")
          /\ afterCollect(<<>>)
          /\ UNCHANGED <<calls, listing, idx, acc, failed>>
          /\ replies' = Append(replies, Reply("pulls.list", 0, [threw |-> TRUE]))
       \/ \E l \in Listings :
             /\ listing' = l
             /\ fallbackLoop(l, 1, <<>>)
             /\ failed' = failed
             /\ replies' = Append(replies, Reply("pulls.list", 0, [threw |-> FALSE]))
    /\ UNCHANGED <<caller, now, config, since, sinceDate, files, outcome,
                   result, finalChangelog, summary, logged>>

\* pulls.list settles: its error leaves collectPRs and run, or the loop starts
ListSettles ==
    /\ pc = "list"
    /\ \/ /\ attempts' = settled(attempts, "error")
          /\ SetFailed
          /\ UNCHANGED <<calls, listing, idx, acc, prs, outputs>>
          /\ replies' = Append(replies, Reply("pulls.list", 0, [threw |-> TRUE]))
       \/ \E l \in Listings :
             /\ listing' = l
             /\ fallbackLoop(l, 1, <<>>)
             /\ failed' = failed
             /\ replies' = Append(replies, Reply("pulls.list", 0, [threw |-> FALSE]))
    /\ UNCHANGED <<caller, now, config, since, sinceDate, files, outcome,
                   result, finalChangelog, summary, logged>>

\* pulls.listFiles settles: its error leaves collectPRs and run; otherwise
\* detectMergeStrategy answers at once without a commit id, or asks for the commit
FilesSettles ==
    /\ pc = "files"
    /\ \/ /\ attempts' = settled(attempts, "error")
          /\ SetFailed
          /\ UNCHANGED <<calls, idx, files, acc, prs, outputs>>
          /\ replies' = Append(replies, Reply("pulls.listFiles", listing[idx].number,
                                              [threw |-> TRUE]))
       \/ /\ files' = fileChanges(ApiFiles(listing[idx].number))
          /\ failed' = failed
          /\ replies' = Append(replies, Reply("pulls.listFiles", listing[idx].number,
                                              [threw |-> FALSE]))
          /\ IF Truthy(listing[idx].merge_commit_sha)
             THEN /\ calls' = Append(calls, Call("git.getCommit", listing[idx].number))
                  /\ pc' = "commit"
                  /\ UNCHANGED <<attempts, idx, acc, prs, outputs>>
             ELSE fallbackLoop(listing, idx + 1,
                               Append(acc, listedRecord(listing[idx], files', "squash")))
    /\ UNCHANGED <<caller, now, config, since, sinceDate, listing,
                   outcome, result, finalChangelog, summary, logged>>

\* git.getCommit settles: the record is pushed and the loop goes on
CommitSettles ==
    /\ pc = "commit"
    /\ \E c \in CommitOutcomes(listing[idx]) :
          /\ fallbackLoop(listing, idx + 1,
                          Append(acc, listedRecord(listing[idx], files,
                                                   classifyCommit(listing[idx], c))))
          /\ replies' = Append(replies, Reply("git.getCommit", listing[idx].number, c))
    /\ UNCHANGED <<caller, now, config, since, sinceDate, listing, files, outcome,
                   result, finalChangelog, summary, logged, failed>>

\* ---- generator (openai.ts)

\* a generator that asks the model even for an empty list
GenerateStartAlwaysAsks ==
    /\ pc = "generate"
    /\ calls' = Append(calls, Call("chat.completions.create", 0))
    /\ pc' = "model"
    /\ result' = result
    /\ UNCHANGED <<caller, now, config, collectorVars, prs, outcome, assemblyVars>>

\* generateChangelogWithAnalysis up to its await: the empty short-circuit, or
\* the prompt is built and the model call issued
GenerateStart ==
    /\ pc = "generate"
    /\ IF Len(prs) = 0
       THEN /\ result' = emptyResponse
            /\ pc' = "generated"
            /\ calls' = calls
       ELSE /\ calls' = Append(calls, Call("chat.completions.create", 0))
            /\ pc' = "model"
            /\ result' = result
    /\ UNCHANGED <<caller, now, config, collectorVars, prs, outcome, assemblyVars>>

\* the model call settles and generateChangelogWithAnalysis returns
ModelSettles ==
    /\ pc = "model"
    /\ \E o \in ModelOutcomes(caller) :
          /\ outcome' = o
          /\ result' = generateChangelogWithAnalysis(prs, o, now)
    /\ pc' = "generated"
    /\ UNCHANGED <<caller, now, config, collectorVars, calls, prs, assemblyVars>>

\* ---- run, steps 4 to 7 (index.ts)

\* `- ${item}\n`
listItem(item) == <<"- ">> \o item \o <<"\n">>

\* Array.prototype.join
RECURSIVE join(_, _)
join(arr, sep) ==
    IF Len(arr) = 0 THEN <<>>
    ELSE IF Len(arr) = 1 THEN arr[1]
    ELSE arr[1] \o <<sep>> \o join(Tail(arr), sep)

DriftHeading == <<"\n", "\n", "## :warning: Documentation Drift Detected", "\n", "\n">>

SuggestionsHeading == <<"\n", "### :bulb: Suggestions:", "\n", "\n">>

\* whether step 4 raises: forEach is called on a value that is no array
step4Throws(r) ==
    /\ LengthPositive(r.driftWarnings)
    /\ \/ ~IsArray(r.driftWarnings)
       \/ LengthPositive(r.suggestions) /\ ~IsArray(r.suggestions)

\* whether step 5 raises: join is called on a value that is no array
step5Throws(r) == ~IsArray(r.driftWarnings)

\* finalChangelog as step 4 leaves it, or as it stands when step 4 raises
assembleChangelog(r) ==
    IF ~LengthPositive(r.driftWarnings) THEN r.changelog
    ELSE IF ~IsArray(r.driftWarnings) THEN r.changelog \o DriftHeading
    ELSE r.changelog \o DriftHeading \o Flatten(map(r.driftWarnings.a, listItem))
            \o (IF ~LengthPositive(r.suggestions) THEN <<>>
                ELSE IF ~IsArray(r.suggestions) THEN SuggestionsHeading
                ELSE SuggestionsHeading \o Flatten(map(r.suggestions.a, listItem)))

\* the core.warning calls of steps 4 and 5 that are reached
assemblyWarnings(r) ==
    (IF LengthPositive(r.driftWarnings) THEN {"drift"} ELSE {})
        \cup (IF ~step4Throws(r) /\ Truthy(r.hasBreakingChanges)
              THEN {"breaking"} ELSE {})

\* run from the return of the generator to the await of createOrUpdateChangelog
Assemble ==
    /\ pc = "generated"
    /\ caller = "run"
    /\ finalChangelog' = assembleChangelog(result)
    /\ logged' = logged \cup assemblyWarnings(result)
    /\ IF step4Throws(result)
       THEN /\ SetFailed
            /\ UNCHANGED <<outputs, calls>>
       ELSE IF step5Throws(result)
       THEN /\ outputs' = [outputs EXCEPT !.changelog = finalChangelog']
            /\ SetFailed
            /\ calls' = calls
       ELSE /\ outputs' = [changelog |-> finalChangelog',
                           drift_warnings |-> join(result.driftWarnings.a, "\n")]
            /\ calls' = Append(calls, Call("repos.getContent", 0))
            /\ pc' = "getContent"
            /\ failed' = failed
    /\ UNCHANGED <<caller, now, config, collectorVars, prs, outcome, result, summary>>

\* createOrUpdateChangelog: repos.getContent settles; the file is updated, or
\* the catch block creates it
GetContentSettles ==
    /\ pc = "getContent"
    /\ \/ /\ calls' = Append(calls, Call("update CHANGELOG.md", 0))
          /\ pc' = "update"
       \/ /\ calls' = Append(calls, Call("create CHANGELOG.md", 0))
          /\ pc' = "create"
    /\ UNCHANGED <<caller, now, config, collectorVars, prs, outcome, result,
                   assemblyVars>>

\* step 7 up to its await: the summary is built and its write is issued
writeSummary ==
    /\ summary' =
          <<"Changelog Generated">>
              \o (IF LengthPositive(result.driftWarnings)
                  THEN <<"Documentation Drift Warnings">>
                          \o (IF LengthPositive(result.suggestions)
                              THEN <<"Suggestions">> ELSE <<>>)
                  ELSE <<>>)
    /\ calls' = Append(calls, Call("summary.write", 0))
    /\ pc' = "summary"

\* the update of the existing file settles: run goes on to the summary, or
\* the catch block of createOrUpdateChangelog creates the file
UpdateSettles ==
    /\ pc = "update"
    /\ \/ writeSummary
       \/ /\ calls' = Append(calls, Call("create CHANGELOG.md", 0))
          /\ pc' = "create"
          /\ summary' = summary
    /\ UNCHANGED <<caller, now, config, collectorVars, prs, outcome, result,
                   finalChangelog, outputs, logged, failed>>

\* a creation whose error reaches the catch block of run
CreateSettlesFatal ==
    /\ pc = "create"
    /\ \/ /\ writeSummary
          /\ failed' = failed
       \/ /\ SetFailed
          /\ UNCHANGED <<calls, summary>>
    /\ UNCHANGED <<caller, now, config, collectorVars, prs, outcome, result,
                   finalChangelog, outputs, logged>>

\* the creation of the file settles: its error is caught by run and logged
CreateSettles ==
    /\ pc = "create"
    /\ \/ logged' = logged
       \/ logged' = logged \cup {"write failed"}
    /\ writeSummary
    /\ UNCHANGED <<caller, now, config, collectorVars, prs, outcome, result,
                   finalChangelog, outputs, failed>>

\* core.summary.write settles: its error reaches the catch block of run
SummarySettles ==
    /\ pc = "summary"
    /\ \/ /\ pc' = "done"
          /\ failed' = failed
       \/ SetFailed
    /\ UNCHANGED <<caller, now, config, collectorVars, calls, prs, outcome, result,
                   finalChangelog, outputs, summary, logged>>

\* ------------------------------------------------------------ specifications

Next ==
    \/ RunStart
    \/ ReleaseSettles
    \/ GitSettles
    \/ ListSettles
    \/ FilesSettles
    \/ CommitSettles
    \/ GenerateStart
    \/ ModelSettles
    \/ Assemble
    \/ GetContentSettles
    \/ UpdateSettles
    \/ CreateSettles
    \/ SummarySettles

\* a run of the action
Spec == Init /\ [][Next]_vars

NextHarness == GenerateStart \/ ModelSettles

\* the generator called on the records of the mock-test harness
SpecHarness == InitHarness /\ [][NextHarness]_vars

\* the generator called on the drift records
SpecDrift == InitDrift /\ [][NextHarness]_vars

\* ------------------------------------------------------------------ claims

\* whether the generator has returned from a model call on a non-empty list
Generated == pc = "generated" /\ outcome # Unset

\* whether the model's reply was located and parsed as JSON
ReplyParsed ==
    /\ outcome # Unset
    /\ ~outcome.threw
    /\ jsonMatch(outcome.content) # <<>>
    /\ jsonParses(jsonMatch(outcome.content))

\* the object the model's reply decoded to
ReplyObject == jsonMatch(outcome.content)[1].o

\* whether the model's reply could not be located or parsed as JSON
ReplyUnparsable == outcome # Unset /\ ~outcome.threw /\ ~ReplyParsed

\* C1: for every non-empty PR sequence the generator returns, whatever the
\* model call did, a result whose changelog text is non-empty and begins with
\* the heading '# Changelog'.
C1_AlwaysReturnsChangelog ==
    Generated =>
        /\ result # Raised
        /\ result # Unset
        /\ Len(result.changelog) > 0
        /\ result.changelog[1] = "# Changelog"

\* C1 witness: the model call raised on a non-empty list and a changelog with
\* the heading came back.
C1_Witness ==
    /\ Generated
    /\ Len(prs) > 0
    /\ outcome = Throws
    /\ result # Raised
    /\ result.changelog[1] = "# Changelog"

\* the bucket the first-match-wins rule gives a PR
firstMatchBucket(pr) ==
    IF isFeaturePR(pr) THEN "feature"
    ELSE IF isFixPR(pr) THEN "fix"
    ELSE IF isDocsPR(pr) THEN "docs"
    ELSE "internal"

\* the entries of the first-match-wins partition, in bucket order
firstMatchEntries(list) ==
    Flatten([b \in 1..4 |->
        LET type == <<"feature", "fix", "docs", "internal">>[b]
        IN  map(SelectSeq(list, LAMBDA pr : firstMatchBucket(pr) = type),
                LAMBDA pr : ChangelogEntry(type, pr))])

\* C2 (as claimed): when the model call fails, the entries are exactly the
\* first-match-wins partition of the PRs, one entry per PR.
C2_FirstMatchPartition ==
    (Generated /\ outcome = Throws) =>
        /\ Len(result.entries.a) = Len(prs)
        /\ result.entries.a = firstMatchEntries(prs)

\* C3 (as claimed): every entry of a parsed model response carries the number
\* of a PR of the input.
C3_EntriesReferenceInput ==
    (Generated /\ ReplyParsed /\ result.entries.t = "arr") =>
        \A i \in 1..Len(result.entries.a) :
            \E j \in 1..Len(prs) : prs[j].number = result.entries.a[i].pr_number

\* C4: when the model call fails or its reply cannot be used, the drift fields
\* of the result are those of the heuristic analyzer over the same PRs.
C4_FallbackCarriesHeuristicDrift ==
    (Generated /\ (outcome.threw \/ parseThrows(outcome.content))) =>
        LET analysis == performHeuristicDriftDetection(prs)
        IN  /\ result.driftWarnings = Arr(analysis.warnings)
            /\ result.suggestions = Arr(analysis.suggestions)
            /\ result.hasBreakingChanges = Bool(analysis.hasBreakingChanges)

\* C4 witness: the model call raised and the result carries a heuristic
\* warning and the breaking flag.
C4_Witness ==
    /\ Generated
    /\ outcome = Throws
    /\ result.driftWarnings.t = "arr"
    /\ Len(result.driftWarnings.a) > 0
    /\ result.hasBreakingChanges = Bool(TRUE)

\* C6 (as claimed): for a parsed reply each missing field takes its default,
\* each present field comes back with the value the model gave, and the
\* changelog is the model's text under the template, not the fallback's.
C6_PresentFieldsAsGiven ==
    (Generated /\ ReplyParsed) =>
        /\ result.entries =
              (IF ReplyObject.entries = Undefined THEN Arr(<<>>)
               ELSE ReplyObject.entries)
        /\ result.driftWarnings =
              (IF ReplyObject.driftWarnings = Undefined THEN Arr(<<>>)
               ELSE ReplyObject.driftWarnings)
        /\ result.suggestions =
              (IF ReplyObject.suggestions = Undefined THEN Arr(<<>>)
               ELSE ReplyObject.suggestions)
        /\ result.hasBreakingChanges =
              (IF ReplyObject.hasBreakingChanges = Undefined THEN Bool(FALSE)
               ELSE ReplyObject.hasBreakingChanges)
        /\ result.changelog # generateEnhancedFallback(prs, now).changelog

\* whether the changelog field of the reply can be put into the template
ChangelogPrintable ==
    ReplyObject.changelog = Undefined \/ ReplyObject.changelog.t = "str"

\* the default of each analysis field
FieldDefault ==
    [entries |-> Arr(<<>>), driftWarnings |-> Arr(<<>>), suggestions |-> Arr(<<>>),
     hasBreakingChanges |-> Bool(FALSE)]

\* C6 (amended): for a parsed reply whose changelog converts to text, each
\* analysis field that is missing or falsy takes its default independently of
\* the others, each present truthy field comes back with the value the model
\* gave, and the changelog is the model's text under the template, not the
\* fallback's.
C6_TruthyFieldsAsGiven ==
    (Generated /\ ReplyParsed /\ ChangelogPrintable) =>
        /\ \A f \in DOMAIN FieldDefault :
              result[f] = (IF ReplyObject[f] \in {Undefined, Null, Num(0), Str(<<>>),
                                                  Bool(FALSE)}
                           THEN FieldDefault[f]
                           ELSE ReplyObject[f])
        /\ result.changelog =
              formatChangelog(IF ReplyObject.changelog = Undefined THEN <<>>
                              ELSE ReplyObject.changelog.s, now)

\* C6 witness: a parsed reply with entries present, driftWarnings null and
\* suggestions missing came back with the entries as given and the other two
\* defaulted.
C6_Witness ==
    /\ Generated
    /\ ReplyParsed
    /\ ChangelogPrintable
    /\ Len(prs) > 0
    /\ ReplyObject.entries = Arr(<<ModelEntry(UnknownPR)>>)
    /\ ReplyObject.driftWarnings = Null
    /\ ReplyObject.suggestions = Undefined
    /\ result.entries = ReplyObject.entries
    /\ result.driftWarnings = Arr(<<>>)
    /\ result.suggestions = Arr(<<>>)

\* C7: when the model returns content without a JSON object, with malformed
\* JSON, or empty content, the result is exactly that of the enhanced fallback
\* over the same PRs.
C7_UnparsableGivesFallback ==
    (Generated /\ ReplyUnparsable) => result = generateEnhancedFallback(prs, now)

\* C7 witness: a reply whose braces enclose no valid JSON came back as the
\* fallback of a non-empty list.
C7_Witness ==
    /\ Generated
    /\ Len(prs) > 0
    /\ outcome = Resolves(<<OpenBrace, Prose, CloseBrace>>)
    /\ result = generateEnhancedFallback(prs, now)

\* ---- claims about run and the collector

\* whether the collector is at work or has just handed its records to run
Collecting ==
    \/ pc \in {"git", "list", "files", "commit", "generate"}
    \/ pc = "done" /\ prs = <<>>

\* whether a call of the given operation has been issued
Called(op) == \E i \in 1..Len(calls) : calls[i].op = op

\* whether the parsed reply holds, in one of the three sequence fields, a
\* value that is present and is not a sequence
ShapeViolated ==
    /\ ReplyParsed
    /\ ChangelogPrintable
    /\ \E f \in {"entries", "driftWarnings", "suggestions"} :
          ReplyObject[f].t \notin {"undefined", "null", "arr"}

\* C5 (as claimed): when the model's JSON gives entries, driftWarnings or
\* suggestions a value that is not a sequence, run gets through the assembly of
\* its outputs: a run marked failed had already reached the changelog write.
C5_MalformedShapeRecovered ==
    (caller = "run" /\ ShapeViolated /\ failed) => Called("repos.getContent")

\* C8 (as claimed): the search-based lookup is the first source attempted,
\* the commit-log scan the second, the full-listing scan the third.
C8_SearchGitListing ==
    attempts # <<>> =>
        /\ attempts[1].source = "search"
        /\ Len(attempts) >= 2 => attempts[2].source = "git"
        /\ Len(attempts) >= 3 => attempts[3].source = "list"

\* C8 (amended): the collector attempts two sources in a fixed order, the
\* search-based lookup not being among them: the commit-log scan always first,
\* the full-listing scan second and only after the commit-log scan raised.
C8_GitThenListing ==
    /\ Len(attempts) <= 2
    /\ attempts # <<>> => attempts[1].source = "git"
    /\ Len(attempts) = 2 =>
          attempts[1].status = "error" /\ attempts[2].source = "list"
    /\ \A i \in 1..Len(calls) :
          calls[i].op \in {"pulls.list", "pulls.listFiles", "git.getCommit"} =>
              /\ Len(attempts) = 2
              /\ \A j \in 1..Len(calls) : calls[j].op = "git log" => j < i

\* C8 witness: the commit log was asked for, the command failed, and the full
\* listing was then fetched and scanned to its end.
C8_Witness ==
    /\ attempts = <<Attempt("git", "error"), Attempt("list", "ok")>>
    /\ Called("git log")
    /\ Called("pulls.listFiles")

\* C9 (as claimed): a commit log without merge-commit lines makes the
\* collector fall through to the full listing.
C9_EmptyLogFallsThrough ==
    (attempts # <<>> /\ attempts[1] = Attempt("git", "ok") /\ prs = <<>>) =>
        Called("pulls.list")

\* whether the full listing's PR was merged, and not earlier than the cutoff
mergedSinceCutoff(pr) ==
    /\ pr.merged_at # Null
    /\ ~(sinceDate.valid /\ newDate(pr.merged_at.s).valid
            /\ newDate(pr.merged_at.s).day < sinceDate.day)

\* C9 (amended): the collector falls through to the full listing when the
\* commit-log scan raises, and a listing scanned to its end returns exactly
\* the closed PRs whose merge time is set and not earlier than the cutoff, in
\* listing order, as run receives them; a commit log that prints no
\* merge-commit line is a success that returns the empty sequence without the
\* listing being asked for.
C9_FailedLogFallsThrough ==
    /\ (attempts # <<>> /\ attempts[1].status = "error") => Called("pulls.list")
    /\ (Collecting /\ attempts = <<Attempt("git", "error"), Attempt("list", "ok")>>) =>
          /\ map(prs, LAMBDA pr : pr.number) =
                map(SelectSeq(listing, mergedSinceCutoff), LAMBDA pr : pr.number)
          /\ \A i \in 1..Len(prs) :
                prs[i].merged_at = SelectSeq(listing, mergedSinceCutoff)[i].merged_at.s
    /\ (attempts # <<>> /\ attempts[1].status = "ok") =>
          /\ Len(attempts) = 1
          /\ ~Called("pulls.list")

\* C9 witness: the commit-log scan raised and the listing held a PR never
\* merged and a PR merged on the cutoff day; only the latter was returned.
C9_Witness ==
    /\ attempts = <<Attempt("git", "error"), Attempt("list", "ok")>>
    /\ Len(listing) = 2
    /\ \E i \in 1..2 : listing[i].merged_at = Null
    /\ \E i \in 1..2 :
          /\ listing[i].merged_at # Null
          /\ newDate(listing[i].merged_at.s) = sinceDate
          /\ Len(prs) = 1
          /\ prs[1].number = listing[i].number

\* C10: the collector never answers with an empty sequence when every source
\* it attempted raised: the error of the last source leaves the collector and
\* run, which marks the run failed without setting an output or calling the model;
\* a run that ends unfailed without PRs had a source that succeeded.
C10_FailureNeverLooksEmpty ==
    /\ (attempts # <<>> /\ \A i \in 1..Len(attempts) : attempts[i].status = "error") =>
          /\ failed
          /\ pc = "done"
          /\ outputs.changelog = Unset
          /\ outcome = Unset
    /\ (pc = "done" /\ ~failed /\ prs = <<>>) =>
          \E i \in 1..Len(attempts) : attempts[i].status = "ok"

\* C10 witness: the commit-log scan and the full listing both raised and the
\* run ended marked failed.
C10_Witness ==
    /\ attempts = <<Attempt("git", "error"), Attempt("list", "error")>>
    /\ Called("pulls.list")
    /\ failed
    /\ pc = "done"

\* ---- claims C11 to C20

\* C11 (as claimed): the PR numbers of the records a collection run returns
\* are pairwise distinct.
C11_NumbersDistinct ==
    caller = "run" =>
        \A i, j \in 1..Len(prs) : prs[i].number = prs[j].number => i = j

\* C12: on an empty PR sequence the generator returns the fixed 'No changes
\* found' document with empty entries, empty driftWarnings, empty suggestions
\* and hasBreakingChanges false, and no model call is made.
C12_EmptyInputShortCircuits ==
    (pc \in {"model", "generated"} /\ prs = <<>>) =>
        /\ pc = "generated"
        /\ result =
              [changelog |-> <<"# Changelog", "\n", "\n",
                               "No changes found for this release.">>,
               entries |-> Arr(<<>>), driftWarnings |-> Arr(<<>>),
               suggestions |-> Arr(<<>>), hasBreakingChanges |-> Bool(FALSE)]
        /\ ~Called("chat.completions.create")
        /\ outcome = Unset

\* C12 witness: the generator has returned on the empty sequence.
C12_Witness ==
    /\ pc = "generated"
    /\ prs = <<>>
    /\ result # Unset
    /\ result.entries = Arr(<<>>)

\* the listed PR the number belongs to
listedPR(n) == listing[CHOOSE j \in 1..Len(listing) : listing[j].number = n]

\* the strategy the classification rules give a fetched commit
strategyOf(pr, answer) ==
    IF answer.threw THEN "squash"
    ELSE CASE answer.parents = 1 ->
                  IF \/ includes(answer.message, pr.title)
                     \/ includes(answer.message, <<"#">> \o NumStr(pr.number))
                  THEN "squash" ELSE "rebase"
           [] answer.parents = 2 -> "merge"
           [] OTHER -> "squash"

\* C14: a listed PR without a merge commit id is classified squash and no
\* commit is fetched for it; a fetched commit with one parent gives squash when
\* its message contains the PR title or '#<number>' and rebase otherwise; two
\* parents give merge; any other parent count and a failed fetch give squash;
\* every settled fetch is followed by the push of the record, so the
\* classifier never raises.  Stated of the collector at work and of the
\* records as run receives them.
C14_ClassificationTotal ==
    /\ \A i \in 1..Len(replies) :
          (Collecting /\ replies[i].op = "git.getCommit") =>
              \E k \in 1..Len(acc) :
                  /\ acc[k].number = replies[i].n
                  /\ acc[k].merge_strategy =
                        strategyOf(listedPR(replies[i].n), replies[i].answer)
    /\ \A k \in 1..Len(acc) :
          (Collecting /\ ~Truthy(listedPR(acc[k].number).merge_commit_sha)) =>
              /\ acc[k].merge_strategy = "squash"
              /\ \A i \in 1..Len(calls) :
                    calls[i] # Call("git.getCommit", acc[k].number)

\* C14 witness: a one-parent commit whose message names neither the title nor
\* the number was fetched and the PR was classified rebase, next to a PR
\* without a commit id classified squash.
C14_Witness ==
    /\ Len(acc) = 2
    /\ \E i \in 1..Len(replies) :
          /\ replies[i].op = "git.getCommit"
          /\ ~replies[i].answer.threw
          /\ replies[i].answer.parents = 1
          /\ \E k \in 1..2 :
                acc[k].number = replies[i].n /\ acc[k].merge_strategy = "rebase"
    /\ \E k \in 1..2 :
          acc[k].merge_commit_sha = <<>> /\ acc[k].merge_strategy = "squash"

\* the head of the document template on the current day
TemplateHead ==
    <<"# Changelog", "\n", "\n", "## [Unreleased] - ">> \o today(now) \o <<"\n", "\n">>

\* the tail of the document template
TemplateTail ==
    <<"\n", "\n", "---", "\n",
      "*Generated by [Changelogger](https://github.com/rohansaibuddhi/changelogger) :robot:*",
      "\n">>

\* whether the text is a body between the template's head and tail
Wrapped(text) ==
    /\ Len(text) >= Len(TemplateHead) + Len(TemplateTail)
    /\ SubSeq(text, 1, Len(TemplateHead)) = TemplateHead
    /\ SubSeq(text, Len(text) - Len(TemplateTail) + 1, Len(text)) = TemplateTail

\* C13 (as claimed): the changelog of every result the generator returns,
\* the one for empty input included, is wrapped in the document template.
C13_EveryResultWrapped ==
    (pc = "generated" /\ result # Raised) => Wrapped(result.changelog)

\* C13 (amended): the changelog of every result returned for a non-empty PR
\* sequence (parsed model response or enhanced fallback) is wrapped in the
\* document template: the top-level heading, an '[Unreleased]' section stamped
\* with the current date, the body, and the attribution footer; the result for
\* empty input is the fixed document of the heading and the 'No changes found'
\* line alone, without the section and the footer.
C13_NonEmptyResultWrapped ==
    /\ (Generated /\ result # Raised) => Wrapped(result.changelog)
    /\ (pc = "generated" /\ prs = <<>>) =>
          /\ ~Wrapped(result.changelog)
          /\ result.changelog =
                <<"# Changelog", "\n", "\n", "No changes found for this release.">>

\* C13 witness: a parsed model response came back with the model's text
\* between the template's head and tail.
C13_Witness ==
    /\ Generated
    /\ ReplyParsed
    /\ ChangelogPrintable
    /\ ReplyObject.changelog # Undefined
    /\ result.changelog = TemplateHead \o ReplyObject.changelog.s \o TemplateTail

\* whether the generator has returned the fallback for the five-PR fixture
FixtureFallback == Generated /\ prs = mockPRs /\ outcome = Throws

\* C15 (as claimed): on the five-PR fixture with the model call failing, the
\* breaking flag is set and the warnings flag breaking changes with count 1
\* and API changes with count 1.
C15_FixtureApiCountOne ==
    FixtureFallback =>
        /\ result.hasBreakingChanges = Bool(TRUE)
        /\ arrIncludes(result.driftWarnings.a, <<"1", " PRs contain breaking changes">>)
        /\ arrIncludes(result.driftWarnings.a,
                       <<"1", " PRs modify APIs - documentation may need updates">>)

\* C15 (amended): on the five-PR fixture with the model call failing, the
\* breaking flag is set and the warnings are, in this order, API changes with
\* count 2 (#125 by its title, body and paths, #126 by its title and paths)
\* and breaking changes with count 1.
C15_FixtureApiCountTwo ==
    FixtureFallback =>
        /\ result.hasBreakingChanges = Bool(TRUE)
        /\ result.driftWarnings =
              Arr(<< <<"2", " PRs modify APIs - documentation may need updates">>,
                     <<"1", " PRs contain breaking changes">> >>)

\* C15 witness: the fallback for the fixture came back with two warnings.
C15_Witness ==
    /\ FixtureFallback
    /\ Len(prs) = 5
    /\ Len(result.driftWarnings.a) = 2

\* the type and PR number of each entry
entryKeys(entries) == map(entries, LAMBDA e : <<e.type, e.pr_number>>)

\* C16: on the five-PR fixture with the model call failing, entries has
\* length 5 and lists feature #123 and #127, fix #124, docs #125 and internal
\* #126, in that order, each with the title and author of its PR.
C16_FixturePartition ==
    FixtureFallback =>
        /\ Len(result.entries.a) = 5
        /\ entryKeys(result.entries.a) =
              << <<"feature", 123>>, <<"feature", 127>>, <<"fix", 124>>,
                 <<"docs", 125>>, <<"internal", 126>> >>
        /\ \A i \in 1..5 : \E j \in 1..5 :
              /\ mockPRs[j].number = result.entries.a[i].pr_number
              /\ mockPRs[j].title = result.entries.a[i].description
              /\ mockPRs[j].author = result.entries.a[i].author

\* C16 witness: the fallback for the fixture came back with the fix entry of
\* #124 in third place.
C16_Witness ==
    /\ FixtureFallback
    /\ result.entries.t = "arr"
    /\ Len(result.entries.a) >= 3
    /\ result.entries.a[3].type = "fix"
    /\ result.entries.a[3].pr_number = 124

\* whether the generator has returned on records of the commit-log scan
GitGenerated ==
    /\ caller = "run"
    /\ Generated
    /\ attempts = <<Attempt("git", "ok")>>

\* C17 (as claimed): on records of the commit-log scan the generator returns
\* a result with one entry per record.
C17_DegradedOneEntryEach ==
    GitGenerated =>
        /\ result # Raised
        /\ result.entries.t = "arr"
        /\ Len(result.entries.a) = Len(prs)

\* C17 (amended): records of the commit-log scan have empty files, empty
\* labels and no body; the generator returns on them whatever the model call
\* does; and when the model call fails or its reply cannot be used, the result
\* has one entry per record, of type 'internal' with the record's title, number
\* and author, and drift fields that are the analyzer's sequences and flag.
C17_DegradedFallbackOneEntryEach ==
    /\ (caller = "run" /\ attempts = <<Attempt("git", "ok")>>) =>
          \A i \in 1..Len(prs) :
              prs[i].files = <<>> /\ prs[i].labels = <<>> /\ prs[i].body = Null
    /\ GitGenerated => result # Raised /\ result # Unset
    /\ (GitGenerated /\ (outcome.threw \/ parseThrows(outcome.content))) =>
          /\ result.entries.t = "arr"
          /\ Len(result.entries.a) = Len(prs)
          /\ \A i \in 1..Len(prs) :
                result.entries.a[i] =
                    [type |-> "internal", description |-> prs[i].title,
                     pr_number |-> prs[i].number, author |-> prs[i].author]
          /\ result.driftWarnings.t = "arr"
          /\ result.suggestions.t = "arr"
          /\ result.hasBreakingChanges.t = "bool"

\* C17 witness: two records of the commit-log scan went through the fallback
\* and came back as two entries.
C17_Witness ==
    /\ GitGenerated
    /\ outcome = Throws
    /\ Len(prs) = 2
    /\ prs[1].files = <<>>
    /\ Len(result.entries.a) = 2

\* whether the full-listing scan has run to its end
ListingDone ==
    attempts # <<>> /\ attempts[Len(attempts)] = Attempt("list", "ok")

\* the listed PRs that were merged, and not earlier than the cutoff
keptListing == SelectSeq(listing, mergedSinceCutoff)

\* what the commit fetch for the PR number answered
commitReply(n) ==
    replies[CHOOSE i \in 1..Len(replies) :
                replies[i].op = "git.getCommit" /\ replies[i].n = n].answer

\* the file list the hosting API holds for a PR number, as FileChange records
listedFiles(n) ==
    [k \in 1..Len(ApiFiles(n)) |->
        [path |-> ApiFiles(n)[k].filename, status |-> ApiFiles(n)[k].status,
         additions |-> ApiFiles(n)[k].additions,
         deletions |-> ApiFiles(n)[k].deletions]]

\* C18: a full-listing scan that ran to its end returns, in listing order, one
\* record for exactly the closed PRs whose merged_at is set and not earlier
\* than the cutoff, a PR merged at the cutoff itself included; each record
\* carries the PR's number and title, its file list, and the strategy
\* classified from its merge commit.  Stated of the records as run receives
\* them.
C18_ListingFilteredAndEnriched ==
    (ListingDone /\ Collecting) =>
        /\ Len(prs) = Len(keptListing)
        /\ \A i \in 1..Len(prs) :
              /\ prs[i].number = keptListing[i].number
              /\ prs[i].title = keptListing[i].title
              /\ prs[i].files = listedFiles(prs[i].number)
              /\ prs[i].merge_strategy =
                    (IF keptListing[i].merge_commit_sha = Null THEN "squash"
                     ELSE strategyOf(keptListing[i], commitReply(prs[i].number)))
        /\ \A j \in 1..Len(listing) :
              (listing[j].merged_at # Null
                  /\ newDate(listing[j].merged_at.s) = sinceDate) =>
                  \E i \in 1..Len(prs) : prs[i].number = listing[j].number

\* C18 witness: a scan over a PR merged before the cutoff and a PR merged
\* after it returned the latter alone, with its two files and the strategy
\* merge.
C18_Witness ==
    /\ ListingDone
    /\ sinceDate.valid
    /\ Len(listing) = 2
    /\ \E j \in 1..2 :
          /\ listing[j].merged_at # Null
          /\ newDate(listing[j].merged_at.s).day < sinceDate.day
    /\ Len(prs) = 1
    /\ Len(prs[1].files) = 2
    /\ prs[1].merge_strategy = "merge"

\* whether the release lookup has answered
ReleaseAnswered == \E i \in 1..Len(replies) : replies[i].op = "listReleases"

\* what the release lookup answered
releaseReply ==
    replies[CHOOSE i \in 1..Len(replies) : replies[i].op = "listReleases"].answer

\* C19: once collection starts, the cutoff is the explicit since when one was
\* supplied, and then no release lookup was made; without one it is the
\* creation time of the most recent release, or the stamp of 30 days before
\* the current time when there is no release or the lookup failed; a failed
\* lookup does not fail the run.
C19_CutoffDefault ==
    /\ (attempts # <<>> /\ config.since # <<>>) =>
          /\ since = config.since
          /\ ~Called("listReleases")
          /\ ~ReleaseAnswered
    /\ (attempts # <<>> /\ config.since = <<>>) =>
          /\ Called("listReleases")
          /\ ReleaseAnswered
          /\ since = (IF ~releaseReply.threw /\ Len(releaseReply.releases) > 0
                      THEN releaseReply.releases[1].created_at
                      ELSE <<"day-">> \o NumStr(now - 30))
          /\ sinceDate.valid
    /\ ReleaseAnswered =>
          /\ attempts # <<>>
          /\ failed => \/ attempts[Len(attempts)].status = "error"
                       \/ Called("chat.completions.create")

\* C19 witness: the release lookup failed and the commit log was asked for
\* with the cutoff of 30 days before the current time, the run not failed.
C19_Witness ==
    /\ ReleaseAnswered
    /\ releaseReply.threw
    /\ sinceDate = Date(now - 30)
    /\ pc = "git"
    /\ ~failed

\* C20: both outputs are set before the changelog write is attempted; a
\* failed write is logged as a warning and the run goes on to its summary
\* unfailed; a run that attempted the write is marked failed only after the
\* summary write was issued.
C20_WriteFailureNotFatal ==
    /\ Called("repos.getContent") =>
          /\ outputs.changelog = finalChangelog
          /\ outputs.drift_warnings = join(result.driftWarnings.a, "\n")
    /\ pc \in {"getContent", "update", "create", "summary"} => ~failed
    /\ "write failed" \in logged =>
          /\ Called("create CHANGELOG.md")
          /\ Called("summary.write")
    /\ (failed /\ Called("repos.getContent")) => Called("summary.write")

\* C20 witness: the write failed, the warning was logged, and the run ended
\* unfailed with both outputs set.
C20_Witness ==
    /\ "write failed" \in logged
    /\ pc = "done"
    /\ ~failed
    /\ outputs.changelog = finalChangelog
    /\ outputs.drift_warnings = join(result.driftWarnings.a, "\n")

\* ---- the drift rules (C22..C26), on the results of the enhanced fallback

\* the keywords and extensions the rules are stated with
kwBreakingChange == <<"b", "r", "e", "a", "k", "i", "n", "g", " ", "c", "h", "a", "n", "g", "e">>

kwBreaking == <<"b", "r", "e", "a", "k", "i", "n", "g">>

kwEndpoint == <<"e", "n", "d", "p", "o", "i", "n", "t">>

kwApi == <<"a", "p", "i">>

kwRouter == <<"r", "o", "u", "t", "e", "r">>

kwFeature == <<"f", "e", "a", "t", "u", "r", "e">>

kwAdd == <<"a", "d", "d">>

kwImplement == <<"i", "m", "p", "l", "e", "m", "e", "n", "t">>

kwExample == <<"e", "x", "a", "m", "p", "l", "e">>

kwDemo == <<"d", "e", "m", "o">>

SourceExtensions ==
    {<<".", "t", "s">>, <<".", "j", "s">>, <<".", "t", "s", "x">>, <<".", "j", "s", "x">>, <<".", "p", "y">>,
     <<".", "g", "o">>, <<".", "r", "s">>, <<".", "j", "a", "v", "a">>, <<".", "c">>, <<".", "c", "p", "p">>}

DocExtensions == {<<".", "m", "d">>, <<".", "t", "x", "t">>, <<".", "r", "s", "t">>}

\* whether the generator has returned the enhanced fallback
FellBack == Generated /\ (outcome.threw \/ parseThrows(outcome.content))

\* whether the text holds the word, letter case aside
mentions(text, word) == includes(toLowerCase(text), word)

\* whether the PR has a body and the body holds the word, letter case aside
bodyMentions(pr, word) == pr.body # Null /\ mentions(pr.body.s, word)

\* whether one of the PR's changed paths holds the marker as spelled
pathHolds(pr, marker) == \E k \in 1..Len(pr.files) : includes(pr.files[k].path, marker)

\* whether one of the PR's changed paths ends, letter case aside, in one of
\* the extensions
pathEnds(pr, exts) ==
    \E k \in 1..Len(pr.files) : \E e \in exts :
        endsWith(toLowerCase(pr.files[k].path), e)

\* how many items of the list end with the phrase
ending(list, phrase) ==
    Cardinality({k \in 1..Len(list) : list[k][Len(list[k])] = phrase})

\* the positions of the PRs a rule counts
breakingMarked ==
    {i \in 1..Len(prs) :
        \/ mentions(prs[i].title, kwBreaking)
        \/ bodyMentions(prs[i], kwBreakingChange)
        \/ \E k \in 1..Len(prs[i].labels) : mentions(prs[i].labels[k], kwBreaking)}

\* C22: the fallback's hasBreakingChanges is true exactly when some PR has a
\* breaking marker ('breaking' in the title or a label, 'breaking change' in
\* the body, letter case aside); then the warnings hold exactly one breaking
\* warning, with the number of such PRs, and the suggestions exactly one
\* migration-guide suggestion; otherwise they hold none.
C22_BreakingRule ==
    FellBack =>
        LET n == Cardinality(breakingMarked)
            w == result.driftWarnings.a
            s == result.suggestions.a
        IN  /\ result.hasBreakingChanges = Bool(n > 0)
            /\ ending(w, " PRs contain breaking changes") = (IF n > 0 THEN 1 ELSE 0)
            /\ n > 0 => arrIncludes(w, NumStr(n) \o <<" PRs contain breaking changes">>)
            /\ ending(s, "Add migration guide and update version compatibility documentation")
                  = (IF n > 0 THEN 1 ELSE 0)

\* C22 witness: the fallback for one PR marked in its body alone and one marked
\* by a label alone carries the flag and the warning with count 2.
C22_Witness ==
    /\ FellBack
    /\ {prs[i].number : i \in 1..Len(prs)} = {12, 13}
    /\ result.hasBreakingChanges = Bool(TRUE)
    /\ arrIncludes(result.driftWarnings.a, <<"2", " PRs contain breaking changes">>)

\* the positions of the PRs with an API or endpoint keyword in title or body,
\* or an api or router path
apiOrEndpointAnywhere ==
    {i \in 1..Len(prs) :
        \/ mentions(prs[i].title, kwApi) \/ mentions(prs[i].title, kwEndpoint)
        \/ bodyMentions(prs[i], kwApi) \/ bodyMentions(prs[i], kwEndpoint)
        \/ pathHolds(prs[i], kwApi) \/ pathHolds(prs[i], kwRouter)}

\* the positions of the PRs with 'api' in the title, 'endpoint' in the body, or
\* an api or router path
apiTitleEndpointBody ==
    {i \in 1..Len(prs) :
        \/ mentions(prs[i].title, kwApi)
        \/ bodyMentions(prs[i], kwEndpoint)
        \/ pathHolds(prs[i], kwApi) \/ pathHolds(prs[i], kwRouter)}

\* C23 (as claimed): the fallback holds one API warning and one API suggestion
\* exactly when some PR's title or body mentions an API or an endpoint keyword
\* or some changed path contains 'api' or 'router', and the warning counts
\* those PRs.
C23_ApiOrEndpointInTitleOrBody ==
    FellBack =>
        LET n == Cardinality(apiOrEndpointAnywhere)
            w == result.driftWarnings.a
            s == result.suggestions.a
        IN  /\ ending(w, " PRs modify APIs - documentation may need updates")
                  = (IF n > 0 THEN 1 ELSE 0)
            /\ n > 0 =>
                  arrIncludes(w, NumStr(n)
                                   \o <<" PRs modify APIs - documentation may need updates">>)
            /\ ending(s, "Update API documentation and examples to reflect changes")
                  = (IF n > 0 THEN 1 ELSE 0)

\* C23 (amended): the fallback holds one API warning and one API suggestion
\* exactly when some PR's title mentions 'api' or its body mentions 'endpoint'
\* (letter case aside), or some changed path contains 'api' or 'router' in
\* lower case, and the warning counts those PRs.
C23_ApiInTitleEndpointInBody ==
    FellBack =>
        LET n == Cardinality(apiTitleEndpointBody)
            w == result.driftWarnings.a
            s == result.suggestions.a
        IN  /\ ending(w, " PRs modify APIs - documentation may need updates")
                  = (IF n > 0 THEN 1 ELSE 0)
            /\ n > 0 =>
                  arrIncludes(w, NumStr(n)
                                   \o <<" PRs modify APIs - documentation may need updates">>)
            /\ ending(s, "Update API documentation and examples to reflect changes")
                  = (IF n > 0 THEN 1 ELSE 0)

\* C23 witness: the fallback for one PR with 'endpoint' in its body alone and
\* one with a router path alone carries the API warning with count 2.
C23_Witness ==
    /\ FellBack
    /\ {prs[i].number : i \in 1..Len(prs)} = {17, 18}
    /\ arrIncludes(result.driftWarnings.a,
                   <<"2", " PRs modify APIs - documentation may need updates">>)
    /\ arrIncludes(result.suggestions.a,
                   <<"Update API documentation and examples to reflect changes">>)

\* the positions of the PRs that touch a source-code file
touchingCode ==
    {i \in 1..Len(prs) :
        pathEnds(prs[i], SourceExtensions)}

\* the positions of the PRs that touch a documentation file
touchingDocs == {i \in 1..Len(prs) : pathEnds(prs[i], DocExtensions)}

\* C24: the fallback holds the code-without-docs warning and suggestion exactly
\* when some PR touches a source-code file and no PR of the set touches a .md,
\* .txt or .rst file; the warning counts the PRs touching source code; a set
\* of records without files never has them.
C24_CodeWithoutDocsRule ==
    FellBack =>
        LET n == Cardinality(touchingCode)
            fires == n > 0 /\ touchingDocs = {}
            w == result.driftWarnings.a
            s == result.suggestions.a
        IN  /\ ending(w, " PRs contain code changes but no documentation updates found")
                  = (IF fires THEN 1 ELSE 0)
            /\ fires =>
                  arrIncludes(w, NumStr(n) \o
                      <<" PRs contain code changes but no documentation updates found">>)
            /\ ending(s, "Consider updating README.md or documentation to reflect code changes")
                  = (IF fires THEN 1 ELSE 0)
            /\ (\A i \in 1..Len(prs) : prs[i].files = <<>>) => ~fires

\* C24 witness: the fallback for two PRs touching source code and none
\* touching documentation carries the warning with count 2.
C24_Witness ==
    /\ FellBack
    /\ Cardinality(touchingCode) = 2
    /\ touchingDocs = {}
    /\ arrIncludes(result.driftWarnings.a,
                   <<"2", " PRs contain code changes but no documentation updates found">>)

\* the positions of the PRs labeled as a feature or titled as adding or
\* implementing
featureMarked ==
    {i \in 1..Len(prs) :
        \/ \E k \in 1..Len(prs[i].labels) : mentions(prs[i].labels[k], kwFeature)
        \/ mentions(prs[i].title, kwAdd)
        \/ mentions(prs[i].title, kwImplement)}

\* whether some PR of the set touches a path containing 'example' or 'demo'
examplesTouched ==
    \E i \in 1..Len(prs) : pathHolds(prs[i], kwExample) \/ pathHolds(prs[i], kwDemo)

\* the phrases the warnings of the three warning rules end with
WarningPhrases ==
    {" PRs contain code changes but no documentation updates found",
     " PRs modify APIs - documentation may need updates",
     " PRs contain breaking changes"}

\* C25: when some PR is labeled as a feature or titled as adding or
\* implementing, and no PR touches a path containing 'example' or 'demo', the
\* fallback's suggestions hold exactly one usage-examples suggestion, the last
\* one; otherwise none.  The rule leaves the warnings and the flag alone: every
\* warning is one of the three other rules', and the flag is up exactly when
\* the breaking warning is there.
C25_ExamplesRuleSuggestsOnly ==
    FellBack =>
        LET n == Cardinality(featureMarked)
            fires == n > 0 /\ ~examplesTouched
            w == result.driftWarnings.a
            s == result.suggestions.a
        IN  /\ ending(s, " new features added - consider adding usage examples")
                  = (IF fires THEN 1 ELSE 0)
            /\ fires =>
                  s[Len(s)] = NumStr(n)
                      \o <<" new features added - consider adding usage examples">>
            /\ \A k \in 1..Len(w) : w[k][Len(w[k])] \in WarningPhrases
            /\ Len(s) = Len(w) + (IF fires THEN 1 ELSE 0)
            /\ result.hasBreakingChanges
                  = Bool(ending(w, " PRs contain breaking changes") = 1)

\* C25 witness: the fallback for a PR labeled as a feature that fires no other
\* rule carries the one suggestion and no warning.
C25_Witness ==
    /\ FellBack
    /\ featureMarked # {}
    /\ ~examplesTouched
    /\ result.driftWarnings = Arr(<<>>)
    /\ result.suggestions =
          Arr(<< <<"1", " new features added - consider adding usage examples">> >>)

\* the rule an item of the warnings or suggestions comes from, by its last
\* segment: 1 code-without-docs, 2 API, 3 breaking, 4 feature-examples
ruleOf(item) ==
    LET phrase == item[Len(item)]
    IN  CASE phrase \in {" PRs contain code changes but no documentation updates found",
                         "Consider updating README.md or documentation to reflect code changes"}
                -> 1
          [] phrase \in {" PRs modify APIs - documentation may need updates",
                         "Update API documentation and examples to reflect changes"}
                -> 2
          [] phrase \in {" PRs contain breaking changes",
                         "Add migration guide and update version compatibility documentation"}
                -> 3
          [] phrase = " new features added - consider adding usage examples" -> 4
          [] OTHER -> 0

\* whether the rules of the items rise strictly within 1..top
inRuleOrder(list, top) ==
    /\ \A k \in 1..Len(list) : ruleOf(list[k]) \in 1..top
    /\ \A k \in 1..(Len(list) - 1) : ruleOf(list[k]) < ruleOf(list[k + 1])

\* the orders the same PRs can be handed over in
Reorderings(list) ==
    {q \in [1..Len(list) -> {list[i] : i \in 1..Len(list)}] :
        \A i \in 1..Len(list) : \E j \in 1..Len(list) : q[j] = list[i]}

\* C26: the fallback's warnings follow the order code-without-docs, API,
\* breaking and its suggestions the order code-without-docs, API, breaking,
\* feature-examples, each rule giving at most one item, so at most 3 warnings
\* and 4 suggestions; and the analyzer's report for any other order of the
\* same PRs is the same.
C26_RuleOrderNotPROrder ==
    FellBack =>
        LET w == result.driftWarnings.a
            s == result.suggestions.a
        IN  /\ inRuleOrder(w, 3)
            /\ inRuleOrder(s, 4)
            /\ Len(w) <= 3
            /\ Len(s) <= 4
            /\ \A q \in Reorderings(prs) :
                  LET other == performHeuristicDriftDetection(q)
                  IN  /\ other.warnings = w
                      /\ other.suggestions = s
                      /\ Bool(other.hasBreakingChanges) = result.hasBreakingChanges

\* C26 witness: two PRs that between them fire all four rules, the later rules
\* by the first PR, and a fallback with 3 warnings and 4 suggestions.
C26_Witness ==
    /\ FellBack
    /\ Len(prs) = 2
    /\ prs[1].number = 13
    /\ prs[2].number = 18
    /\ Len(result.driftWarnings.a) = 3
    /\ Len(result.suggestions.a) = 4

\* the position of the first chunk of the reply that holds an opening brace
firstOpening ==
    CHOOSE i \in 1..Len(outcome.content) :
        /\ hasOpen(outcome.content[i])
        /\ \A j \in 1..(i - 1) : ~hasOpen(outcome.content[j])

\* whether the reply is one serialized JSON object with commentary around it:
\* prose before it, prose and closing braces after it
ObjectInCommentary ==
    /\ Generated
    /\ ~outcome.threw
    /\ \E i \in 1..Len(outcome.content) : hasOpen(outcome.content[i])
    /\ outcome.content[firstOpening].k = "object"
    /\ \A j \in (firstOpening + 1)..Len(outcome.content) :
          outcome.content[j].k \in {"prose", "close"}

\* C27: the parser takes the first balanced '{...}' span of the reply and
\* tolerates commentary before and after it: for a reply that is a valid JSON
\* object with commentary around it, the result is the one parsed from that
\* object alone, a '}' in the commentary after it included.
C27_FirstBalancedSpanParsed ==
    ObjectInCommentary =>
        result = parseEnhancedResponse(<<outcome.content[firstOpening]>>, prs, now)

\* the hosting-API operations of the full-listing scan
ScanOps == {"pulls.list", "pulls.listFiles", "git.getCommit"}

\* the calls of the scan in the order they were issued
issued == SelectSeq(calls, LAMBDA c : c.op \in ScanOps)

\* the answers to them in the order they arrived
answered == SelectSeq(replies, LAMBDA r : r.op \in ScanOps)

\* the enrichment calls in the order they were issued
enrichment == SelectSeq(calls, LAMBDA c : c.op \in {"pulls.listFiles", "git.getCommit"})

\* the PR numbers the file lists were asked for, in the order of asking
filesAskedFor ==
    map(SelectSeq(calls, LAMBDA c : c.op = "pulls.listFiles"), LAMBDA c : c.n)

\* C28: in the full-listing scan the enrichment is strictly sequential: at most
\* one hosting-API call is awaiting its answer, and the answers arrive in the
\* order of the calls; a PR's merge-strategy fetch follows its own file-list
\* fetch at once; the file lists are asked for in listing order, one surviving
\* PR after the other; and the records returned are in listing order.
C28_EnrichmentSequential ==
    Collecting =>
        /\ Len(issued) - Len(answered) \in {0, 1}
        /\ \A k \in 1..Len(answered) :
              answered[k].op = issued[k].op /\ answered[k].n = issued[k].n
        /\ (Len(issued) > Len(answered)) => pc \in {"list", "files", "commit"}
        /\ \A k \in 1..Len(enrichment) :
              enrichment[k].op = "git.getCommit" =>
                  k > 1 /\ enrichment[k - 1] = Call("pulls.listFiles", enrichment[k].n)
        /\ Len(filesAskedFor) <= Len(keptListing)
        /\ \A k \in 1..Len(filesAskedFor) : filesAskedFor[k] = keptListing[k].number
        /\ ListingDone =>
              /\ Len(prs) = Len(keptListing)
              /\ \A k \in 1..Len(prs) : prs[k].number = keptListing[k].number
              /\ Len(filesAskedFor) = Len(prs)

\* C28 witness: the scan of a listing with two surviving PRs has ended, the
\* files of both and the merge commit of the first were fetched, and the
\* records were returned.
C28_Witness ==
    /\ ListingDone
    /\ Len(prs) = 2
    /\ Len(filesAskedFor) = 2
    /\ Len(enrichment) >= 3
    /\ enrichment[2].op = "git.getCommit"
    /\ Len(answered) = Len(issued)

\* whether run has got past the assembly of its outputs, or left it by an error
Assembled == caller = "run" /\ result # Unset /\ pc # "generated"

\* the drift section step 4 appends for the warnings
driftSection(warnings) ==
    <<"\n", "\n", "## :warning: Documentation Drift Detected", "\n", "\n">>
        \o Flatten([k \in 1..Len(warnings) |-> <<"- ">> \o warnings[k] \o <<"\n">>])

\* C29 (as claimed): with an empty driftWarnings the final changelog is the
\* generator's changelog as it is, whatever suggestions holds, and the summary
\* has no suggestions; with a non-empty driftWarnings the final changelog goes
\* on with the drift section that lists every warning once and in order, and
\* the 'drift_warnings' output is the warnings joined by newlines.
C29_AssemblyByWarnings ==
    (Assembled /\ IsArray(result.driftWarnings)) =>
        IF result.driftWarnings.a = <<>>
        THEN /\ finalChangelog = result.changelog
             /\ ~arrIncludes(summary, "Suggestions")
             /\ ~arrIncludes(summary, "Documentation Drift Warnings")
        ELSE /\ Len(finalChangelog) >=
                    Len(result.changelog) + Len(driftSection(result.driftWarnings.a))
             /\ SubSeq(finalChangelog, 1,
                       Len(result.changelog) + Len(driftSection(result.driftWarnings.a)))
                  = result.changelog \o driftSection(result.driftWarnings.a)
             /\ Called("repos.getContent")
             /\ outputs.drift_warnings = join(result.driftWarnings.a, "\n")

\* whether the collector has returned to run without an error and without a PR
ZeroCollected ==
    /\ caller = "run"
    /\ attempts # <<>>
    /\ attempts[Len(attempts)].status = "ok"
    /\ prs = <<>>

\* C30: when the collection succeeds with zero PRs, run has ended: 'changelog'
\* is the fixed 'No changes found' document and 'drift_warnings' the empty
\* string, the generator, the model and createOrUpdateChangelog were not
\* called, no summary was written, and the run is not marked failed.
C30_ZeroPRsEndsQuietly ==
    ZeroCollected =>
        /\ pc = "done"
        /\ outputs =
              [changelog |-> <<"# Changelog", "\n", "\n",
                               "No changes found for this release.">>,
               drift_warnings |-> <<>>]
        /\ result = Unset
        /\ outcome = Unset
        /\ ~Called("chat.completions.create")
        /\ ~Called("repos.getContent")
        /\ ~Called("update CHANGELOG.md")
        /\ ~Called("create CHANGELOG.md")
        /\ ~Called("summary.write")
        /\ ~failed

\* C30 witness: the full listing was scanned, none of its PRs survived, and run
\* ended with its two outputs set.
C30_Witness ==
    /\ ZeroCollected
    /\ attempts = <<Attempt("git", "error"), Attempt("list", "ok")>>
    /\ listing # <<>>
    /\ pc = "done"
    /\ outputs.drift_warnings = <<>>

====
